---- MODULE Spec2Model ----
(***************************************************************************)
(* Verification model of the tindercast caching / rate-limit layer and     *)
(* the portfolio-overlap matcher.                                          *)
(*                                                                         *)
(*   SpecCache      : MemoryCache                     (utils/cache.ts)     *)
(*   SpecWithCache  : withCache                       (utils/cache.ts)     *)
(*   SpecRate       : checkRateLimit / updateRateLimit / neynarRequest     *)
(*                                                    (utils/neynar.ts)    *)
(*   SpecAssets     : getAssetKey / findCommonAssets  (utils/neynar.ts)    *)
(*   SpecSimilarity : calculateSimilarity             (utils/neynar.ts)    *)
(*   SpecExtract    : extractTokenAssets              (utils/neynar.ts)    *)
(*   SpecOverlap    : POST /api/wallet-overlap                             *)
(*   SpecFollow     : Card.handleFollow and POST /api/follow               *)
(*   SpecSuggested  : GET /api/suggested-follows-with-overlap              *)
(*   SpecStack      : CardStack, its swipes and its pagination             *)
(*   SpecStackLive  : SpecStack with responses and timers that arrive      *)
(*                                                                         *)
(* Every specification works on the one state vector `vars`; the actions   *)
(* of one specification leave the variables of the others unchanged.       *)
(***************************************************************************)
EXTENDS Integers, Sequences, FiniteSets, TLC

(***************************************************************************)
(* Bounds of the model                                                     *)
(***************************************************************************)
\* number of overlapping asynchronous withCache callers
MaxCallers == 3
\* the cache clock stops advancing after this many milliseconds
MaxNow == 2000
\* withCache calls counted per key between two stores of that key
MaxRuns == 3
\* neynarRequest calls suspended in their fetch at the same time
MaxInflight == 2
\* fetches per window on an endpoint other than the one carrying the bulk
MaxLightCalls == 1
\* fetches the network may reject
MaxFailures == 1
\* the rate limiter's clock stops advancing after this many milliseconds
MaxRateNow == 120001
\* the longest asset list of the first and of the second user
MaxAssets1 == 3
MaxAssets2 == 2
\* the longest asset lists handed to calculateSimilarity
MaxScored1 == 2
MaxScored2 == 2
\* the most edges of a portfolio handed to extractTokenAssets
MaxEdges == 3
\* the most edges of a portfolio the wallet-overlap route is answered with
MaxRouteEdges == 1
\* clicks on the follow button of a card, requests other clients post to
\* the follow route, and signers Neynar hands out
MaxClicks == 2
MaxPosts == 2
MaxSigners == 2
\* per pair of users, calculatePortfolioOverlap calls of other requests to
\* the suggested-follows route that are awaiting /api/wallet-overlap
MaxOverlapping == 1
\* suggested users the server has for the user of the card stack
MaxServerUsers == 11

(***************************************************************************)
(* Program constants                                                       *)
(***************************************************************************)
\* ttlSeconds * 1000 in MemoryCache.set
MsPerSecond == 1000

\* now + 60000: the length of a rate window
WindowMs == 60000
\* the default limit of an endpoint, and the limits of the special ones
DefaultLimit == 300
SignerLimit == 3000
ValidateLimit == 5000
\* globalRequestCount < 500
GlobalLimit == 500

\* JavaScript null (a cache miss, or a producer that resolved to null)
Null == "null"

Keys == {"overlap_1_2", "following_1"}
Values == {"v1", "v2"}
\* time-to-live values, in seconds, handed to set and withCache
TTLs == {0, 1}
\* a RegExp handed to deletePattern, given by the keys it matches
Patterns == {{"overlap_1_2"}, {"overlap_1_2", "following_1"}, {}}
\* the key the overlapping withCache calls are made on
WcKeys == {"overlap_1_2"}
Callers == 1..MaxCallers
\* endpoints handed to neynarRequest: followUser and createSigner
Endpoints == {"/user/follow", "/signer"}

VARIABLES
  now,      \* Date.now(), in milliseconds
  cache,    \* MemoryCache.cache: stored keys -> [value, expiry]
  wc,       \* the withCache call each caller is suspended in
  op,       \* the operation that made the last step, and what it returned
  evicted,  \* keys removed by a get after expiry and not set again since
  lastSet,  \* per key still stored, the arguments and time of its most recent set
  runs,     \* per key, producer invocations since the last set of the key
  misses,   \* per key, withCache calls begun on a missing key since then
  rateLimits,          \* endpoints seen -> [requests, resetTime]
  globalRequestCount,
  globalResetTime,
  apiKey,              \* whether NEYNAR_API_KEY is set in the environment
  inflight,            \* per endpoint, fetches dispatched and not yet settled
  bulk,                \* the endpoint that carries the bulk of the traffic
  sent,                \* per endpoint, fetches dispatched since its window began
  sentGlobal,          \* fetches dispatched since the global window began
  failures,            \* fetches that were rejected by the network so far
  rop,                 \* the call of checkRateLimit made in the last step, if any
  assets1,             \* the first user's assets, as extractTokenAssets lists them
  assets2,             \* the second user's assets
  common,              \* the list findCommonAssets returned
  phase,               \* "input" before findCommonAssets has run, "done" after
  swapped,             \* what findCommonAssets returned for the lists swapped
  aggregate1,          \* portfolio1?.tokenBalances?.totalBalanceUSD
  aggregate2,          \* portfolio2?.tokenBalances?.totalBalanceUSD
  similarity,          \* the SimilarityMetrics calculateSimilarity returned
  portfolio,           \* the portfolio handed to extractTokenAssets
  extracted,           \* what extractTokenAssets did: the list returned, or threw
  overlapReq,          \* the POST /api/wallet-overlap request being handled
  overlapRes,          \* the response it was answered with
  overlapCall,         \* who posted that request, and with which FIDs
  signers,             \* Neynar's side: the status of every signer uuid
  stored,              \* the signer kept in localStorage for the user
  card,                \* Card.handleFollow: where it is, and its signerUuid
  followReq,           \* the POST /api/follow request being handled
  followRes,           \* the response it was answered with
  follows,             \* the follows dispatched to Neynar so far
  clicks,              \* clicks on the follow button so far
  posts,               \* requests posted to the follow route by other clients
  upstreamFollowing,   \* the FIDs the user follows, as the GraphQL API lists them
  justFollowed,        \* the targets /api/follow succeeded for at this instant
  suggestedCache,      \* memoryCache, the keys suggested_follows_<fid>_<limit>
  followingCache,      \* memoryCache, the key following_<fid>
  overlapCache,        \* memoryCache, the keys overlap_<userFid>_<targetFid>
  suggestedReq,        \* the GET request of the suggested-follows route being handled
  overlapping,         \* per target, overlap calculations of other requests in flight
  fallbackAt,          \* per target, when a fallback was last stored for its pair
  suggestedRes,        \* the last response of the suggested-follows route
  serverCount,         \* suggested users the server has for the user of the stack
  profiles,            \* CardStack state: the profiles loaded, by their rank
  currentIndex,        \* CardStack state
  direction,           \* CardStack state: "left", "right" or "null"
  exiting,             \* CardStack state
  nextCursor,          \* CardStack state: a cursor, or "null"
  isFetchingMore,      \* CardStack state
  hasFetchedInitial,   \* CardStack state
  isLoading,           \* CardStack state
  error,               \* CardStack state: whether an error message is set
  fetching,            \* the fetch of the stack that is in flight, if any
  timers,              \* the pending timers of handleSwipe, each with the
                       \* profiles.length its callback closed over
  swiped,              \* the indices swiped away since the stack last began at 0
  stackOp              \* what the stack did in the last step

cacheVars == <<cache, wc, evicted, lastSet, runs, misses>>

rateVars == <<rateLimits, globalRequestCount, globalResetTime, apiKey, inflight,
              bulk, sent, sentGlobal, failures, rop>>

matchVars == <<assets1, assets2, common, phase, swapped>>

scoreVars == <<aggregate1, aggregate2, similarity>>

extractVars == <<portfolio, extracted>>

assetVars == <<matchVars, scoreVars, extractVars>>

routeVars == <<overlapReq, overlapRes, overlapCall>>

followVars == <<signers, stored, card, followReq, followRes, follows, clicks, posts>>

suggestVars == <<upstreamFollowing, justFollowed, suggestedCache, followingCache,
                 overlapCache, suggestedReq, overlapping, fallbackAt, suggestedRes>>

stackVars == <<serverCount, profiles, currentIndex, direction, exiting, nextCursor,
               isFetchingMore, hasFetchedInitial, isLoading, error, fetching, timers,
               swiped, stackOp>>

pageVars == <<suggestVars, stackVars>>

flowVars == <<routeVars, followVars, pageVars>>

vars == <<now, op, cacheVars, rateVars, assetVars, flowVars>>

(***************************************************************************)
(* MemoryCache                                                             *)
(***************************************************************************)
NoCache == [k \in {} |-> [value |-> Null, expiry |-> 0]]

\* a get that never looks at the expiry
EntryExpired_Never(entry, t) == FALSE

\* an entry taken to be expired from its expiry time on
EntryExpired_AtExpiry(entry, t) == t >= entry.expiry

\* if (Date.now() > entry.expiry)
EntryExpired(entry, t) == t > entry.expiry

\* the value returned by get(key)
CacheGet(c, key, t) ==
  IF key \notin DOMAIN c THEN Null
  ELSE IF EntryExpired(c[key], t) THEN Null
  ELSE c[key].value

\* delete this.cache[key]
CacheDelete(c, key) == [k \in (DOMAIN c) \ {key} |-> c[k]]

\* a get that reports the miss and keeps the expired entry
CacheAfterGet_NoEvict(c, key, t) == c

\* the cache as get(key) leaves it
CacheAfterGet(c, key, t) ==
  IF key \in DOMAIN c /\ EntryExpired(c[key], t) THEN CacheDelete(c, key) ELSE c

\* a set that sweeps the expired entries of the other keys
CacheSet_Sweeping(c, key, value, ttlSeconds, t) ==
  [k \in {kk \in DOMAIN c : ~EntryExpired(c[kk], t)} \cup {key} |->
     IF k = key THEN [value |-> value, expiry |-> t + (ttlSeconds * MsPerSecond)]
     ELSE c[k]]

\* a set that keeps the entry a key already has
CacheSet_KeepExisting(c, key, value, ttlSeconds, t) ==
  [k \in (DOMAIN c) \cup {key} |->
     IF k \in DOMAIN c THEN c[k]
     ELSE [value |-> value, expiry |-> t + (ttlSeconds * MsPerSecond)]]

\* set(key, value, ttlSeconds)
CacheSet(c, key, value, ttlSeconds, t) ==
  [k \in (DOMAIN c) \cup {key} |->
     IF k = key THEN [value |-> value, expiry |-> t + (ttlSeconds * MsPerSecond)]
     ELSE c[k]]

\* clear()
CacheClear(c) == NoCache

\* keys()
CacheKeys(c) == DOMAIN c

\* pattern.test(key)
PatternTest(pattern, key) == key \in pattern

\* deletePattern(pattern)
CacheDeletePattern(c, pattern) ==
  [k \in {kk \in DOMAIN c : ~PatternTest(pattern, kk)} |-> c[k]]

\* stats()
CacheStats(c, t) ==
  [size |-> Cardinality(DOMAIN c),
   activeEntries |-> Cardinality({k \in DOMAIN c : c[k].expiry > t})]

\* a withCache that runs fn whatever the cache holds
WithCacheInvokes_Always(cached) == TRUE

\* a withCache that tests the cached value against undefined
WithCacheInvokes_Undefined(cached) == cached = "undefined"

\* withCache: if (cached !== null) return cached; otherwise run fn
WithCacheInvokes(cached) == cached = Null

(***************************************************************************)
(* Rate limiter of neynarRequest                                           *)
(***************************************************************************)
NoLimits == [e \in {} |-> [requests |-> 0, resetTime |-> 0]]
NoRop == [name |-> "none", endpoint |-> "", allowed |-> FALSE, before |-> 0]

\* the endpoint's counter as a call of checkRateLimit finds it
Before(rl, endpoint) == IF endpoint \in DOMAIN rl THEN rl[endpoint].requests ELSE 0

\* endpoint.includes('/signer')
IncludesSigner(endpoint) == endpoint \in {"/signer", "/signer?signer_uuid=1"}

\* the limit checkRateLimit compares the endpoint's counter with
EndpointLimit(endpoint) ==
  IF endpoint = "/frame/validate" THEN ValidateLimit
  ELSE IF IncludesSigner(endpoint) THEN SignerLimit
  ELSE DefaultLimit

\* if (now > globalResetTime)
GlobalWindowPassed(gr, t) == t > gr

\* if (!rateLimits[endpoint] || now > rateLimits[endpoint].resetTime)
EndpointWindowPassed(rl, endpoint, t) ==
  endpoint \notin DOMAIN rl \/ t > rl[endpoint].resetTime

\* a check that also counts the request it is asked about
CheckGlobalCount_Counting(g, gr, t) == IF GlobalWindowPassed(gr, t) THEN 0 ELSE g + 1

\* globalRequestCount as checkRateLimit leaves it
CheckGlobalCount(g, gr, t) == IF GlobalWindowPassed(gr, t) THEN 0 ELSE g

\* globalResetTime as checkRateLimit leaves it
CheckGlobalReset(gr, t) == IF GlobalWindowPassed(gr, t) THEN t + WindowMs ELSE gr

\* rateLimits as checkRateLimit(endpoint) leaves it
CheckLimits(rl, endpoint, t) ==
  IF EndpointWindowPassed(rl, endpoint, t)
  THEN [e \in (DOMAIN rl) \cup {endpoint} |->
          IF e = endpoint THEN [requests |-> 0, resetTime |-> t + WindowMs] ELSE rl[e]]
  ELSE rl

\* a check that still lets a request through at the limit
CheckRateLimit_Inclusive(rl, g, gr, endpoint, t) ==
  /\ CheckLimits(rl, endpoint, t)[endpoint].requests <= EndpointLimit(endpoint)
  /\ CheckGlobalCount(g, gr, t) <= GlobalLimit

\* the value checkRateLimit(endpoint) returns
CheckRateLimit(rl, g, gr, endpoint, t) ==
  LET isWithinEndpointLimit ==
        CheckLimits(rl, endpoint, t)[endpoint].requests < EndpointLimit(endpoint)
      isWithinGlobalLimit == CheckGlobalCount(g, gr, t) < GlobalLimit
  IN isWithinEndpointLimit /\ isWithinGlobalLimit

\* rateLimits as updateRateLimit(endpoint) leaves it
UpdateLimits(rl, endpoint) ==
  [rl EXCEPT ![endpoint] = [requests |-> @.requests + 1, resetTime |-> @.resetTime]]

\* globalRequestCount as updateRateLimit leaves it
UpdateGlobalCount(g) == g + 1

(***************************************************************************)
(* Common-asset matcher                                                    *)
(***************************************************************************)
\* the fields of an Asset the matcher reads: network, address, symbol and
\* balanceUSD (name, balance, price and imgUrl are copied like symbol)
Asset(network, address, symbol, balanceUSD) ==
  [network |-> network, address |-> address, symbol |-> symbol, balanceUSD |-> balanceUSD]

\* the assets the two wallets are drawn from
AssetPool ==
  { Asset("ethereum", "0xaaa", "USDC", 10),
    Asset("ethereum", "0xaaa", "DAI", 30),
    Asset("polygon", "0xaaa", "USDC", 0),
    Asset("ethereum", "0xbbb", "WETH", 30),
    Asset("polygon", "0xbbb", "WETH", 20),
    Asset("polygon", "0xbbb", "DAI", 10) }

\* a key that leaves the network out
GetAssetKey_AddressOnly(asset) == asset.address

\* `${asset.network}:${asset.address}`
GetAssetKey(asset) == asset.network \o ":" \o asset.address

\* a map that holds the first asset of assets2 only
Asset2Map_FirstOnly(list) ==
  IF list = <<>> THEN <<>> ELSE (GetAssetKey(list[1]) :> list[1])

\* asset2Map after the forEach over assets2: a later asset replaces an
\* earlier one with the same key
Asset2Map(list) ==
  [key \in {GetAssetKey(list[j]) : j \in 1..Len(list)} |->
     LET last == CHOOSE j \in 1..Len(list) :
                   /\ GetAssetKey(list[j]) = key
                   /\ \A jj \in 1..Len(list) : GetAssetKey(list[jj]) = key => jj <= j
     IN list[last]]

\* the CommonAsset pushed for asset1 and its match
MakeCommon(asset1, match) ==
  [network |-> asset1.network, address |-> asset1.address, symbol |-> asset1.symbol,
   user1USD |-> asset1.balanceUSD, user2USD |-> match.balanceUSD,
   totalBalanceUSD |-> asset1.balanceUSD + match.balanceUSD]

\* common after the forEach over assets1, before the sort
RECURSIVE Matches(_, _)
Matches(list1, map) ==
  IF list1 = <<>> THEN <<>>
  ELSE LET key == GetAssetKey(Head(list1)) IN
       IF key \in DOMAIN map
       THEN <<MakeCommon(Head(list1), map[key])>> \o Matches(Tail(list1), map)
       ELSE Matches(Tail(list1), map)

\* a comparator that sorts lowest first
Compare_Ascending(a, b) == a.totalBalanceUSD - b.totalBalanceUSD

\* b.totalBalanceUSD - a.totalBalanceUSD
Compare(a, b) == b.totalBalanceUSD - a.totalBalanceUSD

\* x put into a sorted list behind every element that does not sort after it
RECURSIVE InsertSorted(_, _)
InsertSorted(sorted, x) ==
  IF sorted = <<>> THEN <<x>>
  ELSE IF Compare(Head(sorted), x) <= 0
       THEN <<Head(sorted)>> \o InsertSorted(Tail(sorted), x)
       ELSE <<x>> \o sorted

\* Array.prototype.sort with Compare: a stable sort
RECURSIVE SortCommon(_)
SortCommon(list) ==
  IF list = <<>> THEN <<>>
  ELSE InsertSorted(SortCommon(SubSeq(list, 1, Len(list) - 1)), list[Len(list)])

\* findCommonAssets(assets1, assets2)
FindCommonAssets(list1, list2) == SortCommon(Matches(list1, Asset2Map(list2)))

(***************************************************************************)
(* Similarity metrics                                                      *)
(***************************************************************************)
\* stands for a number the portfolio source left out (undefined)
Absent == -1

\* the aggregates a portfolio comes with
Aggregates == {Absent, 0, 40}

\* the assets of the wallets that are scored: one token held by both users
\* (worth 100 to one, 50 to the other), and two tokens worth nothing
ScoredPool ==
  { Asset("ethereum", "0xaaa", "USDC", 100),
    Asset("ethereum", "0xaaa", "USDC", 50),
    Asset("polygon", "0xaaa", "USDC", 0),
    Asset("ethereum", "0xbbb", "WETH", 0) }

\* similarity before calculateSimilarity has returned
NoMetrics ==
  [assetCountSimilarity |-> [kind |-> "none", n |-> 0, d |-> 0],
   valueOverlap |-> [kind |-> "none", n |-> 0, d |-> 0],
   user1TotalUSD |-> 0, user2TotalUSD |-> 0,
   commonAssetsUSD |-> [kind |-> "none", n |-> 0, d |-> 0]]

RECURSIVE Gcd(_, _)
Gcd(a, b) == IF b = 0 THEN a ELSE Gcd(b, a % b)

\* the numbers the metrics take: a fraction n/d that is not negative, in
\* lowest terms (the rounding of floating point is left out), and the two
\* values a division by zero gives
Number(n, d) ==
  LET g == Gcd(n, d) IN [kind |-> "finite", n |-> n \div g, d |-> d \div g]

NaN == [kind |-> "NaN", n |-> 0, d |-> 0]

Infinity == [kind |-> "Infinity", n |-> 0, d |-> 0]

\* a / b for two fractions
Divide(a, b) ==
  IF b.n = 0
  THEN IF a.n = 0 THEN NaN ELSE Infinity
  ELSE Number(a.n * b.d, a.d * b.n)

\* a * k for a number a and a positive integer k
Times(a, k) == IF a.kind = "finite" THEN Number(a.n * k, a.d) ELSE a

Max(a, b) == IF a >= b THEN a ELSE b

\* list.reduce((sum, asset) => sum + (asset.balanceUSD || 0), 0)
RECURSIVE SumBalanceUSD(_)
SumBalanceUSD(list) ==
  IF list = <<>> THEN 0 ELSE Head(list).balanceUSD + SumBalanceUSD(Tail(list))

\* aggregate || sum: an aggregate that is absent or 0 gives way to the sum
TotalUSD(aggregate, list) ==
  IF aggregate = Absent \/ aggregate = 0 THEN SumBalanceUSD(list) ELSE aggregate

\* a common total that adds the whole of each totalBalanceUSD
CommonTotal_Whole(list) ==
  Number(SumBalanceUSD([k \in 1..Len(list) |-> [balanceUSD |-> list[k].totalBalanceUSD]]), 1)

\* commonAssets.reduce((sum, asset) => sum + asset.totalBalanceUSD / 2, 0)
CommonTotal(list) ==
  Number(SumBalanceUSD([k \in 1..Len(list) |-> [balanceUSD |-> list[k].totalBalanceUSD]]), 2)

\* (commonAssets.length / Math.max(user1Assets.length, user2Assets.length)) * 100
CountSimilarity(n, list1, list2) ==
  Times(Divide(Number(n, 1), Number(Max(Len(list1), Len(list2)), 1)), 100)

\* calculateSimilarity(user1Assets, user2Assets, commonAssets, portfolio1, portfolio2)
CalculateSimilarityOf(list1, list2, commonAssets, agg1, agg2) ==
  LET user1Total == TotalUSD(agg1, list1)
      user2Total == TotalUSD(agg2, list2)
      commonTotal == CommonTotal(commonAssets)
  IN [assetCountSimilarity |-> CountSimilarity(Len(commonAssets), list1, list2),
      valueOverlap |-> Times(Divide(commonTotal, Number(user1Total + user2Total, 2)), 100),
      user1TotalUSD |-> user1Total,
      user2TotalUSD |-> user2Total,
      commonAssetsUSD |-> commonTotal]

(***************************************************************************)
(* Portfolios and the assets extracted from them                           *)
(***************************************************************************)
\* a token of the portfolio source: network is "" when the token comes
\* without network name, balanceUSD is Absent when it comes without value
Token(tokenAddress, network, symbol, balanceUSD) ==
  [tokenAddress |-> tokenAddress, network |-> network, symbol |-> symbol,
   balanceUSD |-> balanceUSD]

NoToken == Token("", "", "", Absent)

\* the edges of byToken: null, an edge without node, an edge with a token
NullEdge == [kind |-> "null", node |-> NoToken]

NoNodeEdge == [kind |-> "noNode", node |-> NoToken]

TokenEdge(token) == [kind |-> "token", node |-> token]

EdgePool ==
  { NullEdge, NoNodeEdge,
    TokenEdge(Token("0xaaa", "ethereum", "USDC", 100)),
    TokenEdge(Token("0xbbb", "", "WETH", Absent)) }

\* a portfolio: missing altogether, without tokenBalances, without
\* byToken, without edges, or with a list of edges
Portfolio(shape, aggregate, edges) ==
  [shape |-> shape, aggregate |-> aggregate, edges |-> edges]

NoPortfolio == Portfolio("missing", Absent, <<>>)

PortfoliosUpTo(n) ==
  {NoPortfolio, Portfolio("noTokenBalances", Absent, <<>>)}
    \cup {Portfolio(shape, Absent, <<>>) : shape \in {"noByToken", "noEdges"}}
    \cup {Portfolio("edges", Absent, edges) :
            edges \in UNION {[1..m -> EdgePool] : m \in 0..n}}

\* extracted before extractTokenAssets has run
NotExtracted == [called |-> FALSE, threw |-> FALSE, assets |-> <<>>]

Returned(list) == [called |-> TRUE, threw |-> FALSE, assets |-> list]

\* a TypeError left the function
Threw == [called |-> TRUE, threw |-> TRUE, assets |-> <<>>]

\* the Asset pushed for a token: network.name || 'unknown', balanceUSD || 0
TokenAsset(token) ==
  Asset(IF token.network = "" THEN "unknown" ELSE token.network,
        token.tokenAddress, token.symbol,
        IF token.balanceUSD = Absent THEN 0 ELSE token.balanceUSD)

\* tokenEdges.forEach(edge => { const token = edge.node; if (token) push }):
\* reading node of an edge that is null throws
RECURSIVE ForEachEdge(_, _)
ForEachEdge(edges, assets) ==
  IF edges = <<>> THEN Returned(assets)
  ELSE IF Head(edges).kind = "null" THEN Threw
  ELSE IF Head(edges).kind = "token"
       THEN ForEachEdge(Tail(edges), Append(assets, TokenAsset(Head(edges).node)))
       ELSE ForEachEdge(Tail(edges), assets)

\* extractTokenAssets(portfolio)
ExtractTokenAssets(p) ==
  IF p.shape \in {"missing", "noTokenBalances", "noByToken"}
  THEN Returned(<<>>)
  ELSE ForEachEdge(IF p.shape = "noEdges" THEN <<>> ELSE p.edges, <<>>)

(***************************************************************************)
(* POST /api/wallet-overlap                                                *)
(***************************************************************************)
\* what request.json() gives: a body that does not parse, a body without
\* one of the FIDs, a body with both
Bodies == {"malformed", "noFids", "ok"}

\* how fetchFarcasterProfile ends: it throws (no profile, or the request
\* failed), or returns a profile with or without wallet addresses
ProfileOutcomes == {"failed", "noAddresses", "addresses"}

\* fetchPortfolio threw
FetchFailed == Portfolio("failed", Absent, <<>>)

\* how fetchPortfolio ends: it throws or returns data.portfolioV2
PortfolioOutcomes(n) ==
  {FetchFailed, Portfolio("noTokenBalances", Absent, <<>>)}
    \cup {Portfolio(shape, aggregate, <<>>) :
            shape \in {"noByToken", "noEdges"}, aggregate \in Aggregates}
    \cup {Portfolio("edges", aggregate, edges) :
            aggregate \in Aggregates,
            edges \in UNION {[1..m -> EdgePool] : m \in 0..n}}

\* the FIDs the callers of the route are given; 0 stands for no FID
Fids == {0, 1, 1317}

\* the fields of a JSON body the route and its callers name
Body(userFid, targetFid, profileFid) ==
  [userFid |-> userFid, targetFid |-> targetFid, profileFid |-> profileFid]

\* JSON.stringify({ userFid, profileFid }): the body testWalletOverlapApi
\* and CardStack.fetchWalletOverlap post
CallerBody(userFid, profileFid) == Body(userFid, Absent, profileFid)

\* const { userFid, targetFid } = body; if (!userFid || !targetFid)
BodyKind(body) ==
  IF body.userFid \in {Absent, 0} \/ body.targetFid \in {Absent, 0}
  THEN "noFids" ELSE "ok"

\* nobody has posted to the route
NoCall == [caller |-> "none", userFid |-> 0, profileFid |-> 0]

NoOverlapReq ==
  [pc |-> "idle", body |-> "ok", useMockData |-> FALSE, user |-> "none",
   target |-> "none", userPortfolio |-> NoPortfolio, targetPortfolio |-> NoPortfolio]

NoNumber == [kind |-> "none", n |-> 0, d |-> 0]

\* a response: its HTTP status and the fields of its body
NoResponse ==
  [status |-> 0, kind |-> "none", overlapPercentage |-> NoNumber,
   topCommonAssets |-> <<>>, totalCommonAssets |-> 0]

\* { error } with a status
ErrorResponse(status) == [NoResponse EXCEPT !.status = status, !.kind = "error"]

\* the answer of getMockWalletOverlap
MockResponse == [NoResponse EXCEPT !.status = 200, !.kind = "mock"]

OverlapResponse(percentage, top, total) ==
  [status |-> 200, kind |-> "overlap", overlapPercentage |-> percentage,
   topCommonAssets |-> top, totalCommonAssets |-> total]

\* { overlapPercentage: 0, topCommonAssets: [], totalCommonAssets: 0 }
Zeroed == OverlapResponse(Number(0, 1), <<>>, 0)

\* Math.round(x * 10) / 10
RoundToTenth(x) ==
  IF x.kind = "finite" THEN Number((20 * x.n + x.d) \div (2 * x.d), 10) ELSE x

\* commonAssets.slice(0, 3).map(...)
TopCommonAssets(list) ==
  [k \in 1..(IF Len(list) < 3 THEN Len(list) ELSE 3) |->
     [symbol |-> list[k].symbol, network |-> list[k].network]]

\* the response computed from the two portfolios (lines 77-110); a throw
\* of extractTokenAssets lands in the catch block
ComputedResponse(userPortfolio, targetPortfolio) ==
  LET userAssets == ExtractTokenAssets(userPortfolio)
      targetAssets == ExtractTokenAssets(targetPortfolio)
  IN IF userAssets.threw \/ targetAssets.threw THEN ErrorResponse(500)
     ELSE LET commonAssets == FindCommonAssets(userAssets.assets, targetAssets.assets)
              metrics == CalculateSimilarityOf(userAssets.assets, targetAssets.assets,
                                               commonAssets, userPortfolio.aggregate,
                                               targetPortfolio.aggregate)
          IN OverlapResponse(RoundToTenth(metrics.valueOverlap),
                             TopCommonAssets(commonAssets), Len(commonAssets))

(***************************************************************************)
(* Signers, Card.handleFollow and POST /api/follow                         *)
(***************************************************************************)
\* the signer uuids Neynar hands out
SignerId(i) == "signer-" \o ToString(i)

SignerIds == {SignerId(i) : i \in 1..MaxSigners}

\* the uuids the routes answer with canned data
TestIds == {"test-approved", "test-pending"}

\* the statuses of a signer; "unknown" is a uuid Neynar does not know,
\* for which the status request fails
Statuses == {"pending_approval", "approved", "revoked"}

\* signer_approval_url of the signer data: there while approval is pending
ApprovalUrl(signerUuid, status) ==
  IF status = "pending_approval" THEN "approve:" \o signerUuid ELSE ""

TestApprovalUrl == "https://warpcast.com/~/approved-signers/approve?token=test-token"

NoSigner == [signer_uuid |-> "", status |-> "", signer_approval_url |-> ""]

SignerData(signerUuid, status, url) ==
  [signer_uuid |-> signerUuid, status |-> status, signer_approval_url |-> url]

\* isSignerValid(signerInfo), deadlines left out
IsSignerValid(signerInfo) == signerInfo # NoSigner /\ signerInfo.status = "approved"

\* a test that lets every signer through that is not revoked
NotApproved_RevokedOnly(status) == status = "revoked"

\* status !== 'approved'
NotApproved(status) == status # "approved"

CardIdle == [pc |-> "idle", signerUuid |-> ""]

\* refused: checkRateLimit refused a Neynar call of the request
NoFollowReq ==
  [pc |-> "idle", signerUuid |-> "", checked |-> "", byCard |-> FALSE, refused |-> FALSE]

\* a response of the follow route: HTTP status, and the status and
\* approvalUrl fields of its body; the error field is filled in by
\* FollowError
FollowResponse(status, signerStatus, approvalUrl) ==
  [status |-> status, signerStatus |-> signerStatus, approvalUrl |-> approvalUrl,
   error |-> ""]

\* neynar.ts 90: the message of the error neynarRequest throws when
\* checkRateLimit refuses the signer status check, and the follow
SignerRateLimited == "Rate limit exceeded for /signer?signer_uuid="
FollowRateLimited == "Rate limit exceeded for /user/follow"

\* the message of any other error of a Neynar call
NeynarFailed == "Neynar API error"

\* part_009 96-98: the message of the outer catch for a rate limit error
TryAgainLater == "Rate limit exceeded. Please try again later."

\* part_009 82-88: the inner catch answers 500 with the message of the
\* error it caught
FollowError(message) == [FollowResponse(500, "", "") EXCEPT !.error = message]

NoFollowRes == FollowResponse(0, "", "")

(***************************************************************************)
(* GET /api/suggested-follows-with-overlap                                 *)
(***************************************************************************)
\* route.ts 22-24: the TTLs of the three caches, in seconds
SUGGESTED_FOLLOWS_CACHE_TTL == 1800
OVERLAP_CACHE_TTL_Short == SUGGESTED_FOLLOWS_CACHE_TTL
OVERLAP_CACHE_TTL == 86400
FOLLOWING_CACHE_TTL == 3600

\* the instants of Date.now() at which the route is observed: the start,
\* and the last millisecond of the 24 hours that follow it
DayMs == 86400 * MsPerSecond
Instants == {0, DayMs}

\* the user asking for suggestions, and the users Neynar suggests to them,
\* in the order of its answer
UserFid == 1
SuggestedUpstream == <<2, 3>>
Targets == {2, 3}

\* the limit parameter of the requests: fewer than the three mock users, so
\* that the slice of the mock answer cuts
Limits == {2}

\* the overlapPercentage of a 200 answer of /api/wallet-overlap as JSON
\* carries it: a number, or null (Absent) for NaN
Percentages == {Absent, 40}

\* the cache keys of the route
SuggestedKey(limit) == IF limit = 2 THEN "suggested_follows_1_2" ELSE "suggested_follows_1_n"
FollowingKey == "following_1"
OverlapKey(t) == IF t = 2 THEN "overlap_1_2" ELSE "overlap_1_3"

\* withCache finds a value under key: the values of this route are objects
\* and arrays, never null
Cached(c, key, t) == key \in DOMAIN c /\ ~EntryExpired(c[key], t)

\* route.ts 60-67: the data of a 200 answer of /api/wallet-overlap
OverlapData(pct) ==
  [overlapPercentage |-> pct, totalCommonAssets |-> IF pct = Absent THEN 0 ELSE 1]

\* route.ts 68-73: the default overlap data returned on an error
Fallback == [overlapPercentage |-> 0, totalCommonAssets |-> Absent]

\* no overlap data
NoData == [overlapPercentage |-> Absent, totalCommonAssets |-> Absent]

\* x || 0 for a number or null
OrZero(x) == IF x = Absent \/ x = 0 THEN 0 ELSE x

Min(a, b) == IF a <= b THEN a ELSE b

\* array.slice(0, limit) for limit >= 0
Slice(array, limit) == SubSeq(array, 1, Min(limit, Len(array)))

Elements(array) == {array[i] : i \in 1..Len(array)}

\* route.ts 136-173: the users of the mock answer
MockUsers ==
  << [fid |-> 12345, overlapPercentage |-> 75],
     [fid |-> 67890, overlapPercentage |-> 50],
     [fid |-> 13579, overlapPercentage |-> 25] >>

\* a comparator that sorts the lowest overlap first
CompareOverlap_Ascending(a, b) == a.overlapPercentage - b.overlapPercentage

\* route.ts 240-242: (a, b) => b.overlapPercentage - a.overlapPercentage
CompareOverlap(a, b) == b.overlapPercentage - a.overlapPercentage

\* Array.prototype.sort with that comparator is stable: u goes behind every
\* user that does not compare greater than it
RECURSIVE InsertByOverlap(_, _)
InsertByOverlap(sorted, u) ==
  IF sorted = <<>> THEN <<u>>
  ELSE IF CompareOverlap(sorted[1], u) <= 0
       THEN <<sorted[1]>> \o InsertByOverlap(Tail(sorted), u)
       ELSE <<u>> \o sorted

RECURSIVE SortByOverlap(_)
SortByOverlap(users) ==
  IF users = <<>> THEN <<>>
  ELSE InsertByOverlap(SortByOverlap(SubSeq(users, 1, Len(users) - 1)), users[Len(users)])

\* a GET request of the route: at is when it arrived, followed are the
\* targets the user had just followed, and followed upstream, then, and
\* queryFailed tells that its following query failed; users are the FIDs of
\* usersWithBasicData, pending the overlap calculations that await
\* /api/wallet-overlap, overlap the data of the ones that have settled
NoSuggestedReq ==
  [pc |-> "idle", at |-> 0, followed |-> {}, queryFailed |-> FALSE, users |-> <<>>,
   totalCount |-> 0,
   pending |-> {}, overlap |-> [t \in Targets |-> NoData]]

\* a response of the route, with the followed and queryFailed of its request
SuggestedResponse(status, users, totalCount, mock, followed, queryFailed) ==
  [status |-> status, users |-> users, totalCount |-> totalCount, mock |-> mock,
   followed |-> followed, queryFailed |-> queryFailed]

NoSuggestedRes == SuggestedResponse(0, <<>>, 0, FALSE, {}, FALSE)

\* nothing followed, nothing cached, no request to the route yet
SuggestStart ==
  /\ upstreamFollowing = {}
  /\ justFollowed = {}
  /\ suggestedCache = NoCache
  /\ followingCache = NoCache
  /\ overlapCache = NoCache
  /\ suggestedReq = NoSuggestedReq
  /\ overlapping = [t \in Targets |-> 0]
  /\ fallbackAt = [t \in Targets |-> Absent]
  /\ suggestedRes = NoSuggestedRes

(***************************************************************************)
(* CardStack                                                               *)
(***************************************************************************)
\* part_004 86, 169: limit=10 in the requests of the stack
PageLimit == 10

\* nextCursor when there is none
NoCursor == "null"

\* route.ts 208-247 for limit=10: the answer of the route when the server
\* has n suggested users the user does not follow; users stand by their rank
RouteReply(n) ==
  [users |-> [i \in 1..Min(PageLimit, n) |-> i], totalCount |-> n]

\* data.nextCursor || null
NextCursorOf(data) ==
  IF "nextCursor" \in DOMAIN data THEN data.nextCursor ELSE NoCursor

\* part_004 217-229: the condition under which the effect fetches more
WantsMore(loaded, index, cursor, fetchingMore) ==
  /\ cursor # NoCursor
  /\ ~fetchingMore
  /\ Len(loaded) > 0
  /\ index >= Len(loaded) - 3

\* the stack is mounted and its first fetch is on its way (part_004 36-44,
\* 207-215)
StackStart ==
  /\ profiles = <<>>
  /\ currentIndex = 0
  /\ direction = "null"
  /\ exiting = FALSE
  /\ nextCursor = NoCursor
  /\ isFetchingMore = FALSE
  /\ hasFetchedInitial = FALSE
  /\ isLoading = TRUE
  /\ error = FALSE
  /\ fetching = "initial"
  /\ timers = <<>>
  /\ swiped = {}
  /\ stackOp = "mount"

\* no request to the routes yet, no signer created, nothing followed
RequestsStart ==
  /\ overlapReq = NoOverlapReq
  /\ overlapRes = NoResponse
  /\ overlapCall = NoCall
  /\ signers = [id \in SignerIds |-> "unknown"]
  /\ stored = NoSigner
  /\ card = CardIdle
  /\ followReq = NoFollowReq
  /\ followRes = NoFollowRes
  /\ follows = <<>>
  /\ clicks = 0
  /\ posts = 0

FlowStart ==
  /\ RequestsStart
  /\ SuggestStart
  /\ StackStart
  /\ serverCount = 0

(***************************************************************************)
(* State of the ghost variables                                            *)
(***************************************************************************)
NoSet == [done |-> FALSE, value |-> Null, ttl |-> 0, at |-> 0]
Idle == [pc |-> "idle", key |-> "", ttl |-> 0]
NoOp == [name |-> "init", key |-> "", ret |-> Null, keys |-> {}, size |-> 0, active |-> 0]

\* a key is missing when nothing is stored under it, its entry has
\* expired, or the stored value is null
Missing(c, key, t) ==
  \/ key \notin DOMAIN c
  \/ t > c[key].expiry
  \/ c[key].value = Null

RecordSet(key, value, ttl) ==
  /\ lastSet' = [lastSet EXCEPT ![key] = [done |-> TRUE, value |-> value, ttl |-> ttl, at |-> now]]
  /\ evicted' = evicted \ {key}
  /\ runs' = [runs EXCEPT ![key] = 0]
  /\ misses' = [misses EXCEPT ![key] = 0]

\* a read of key: an entry past its expiry is due for eviction
RecordRead(key) ==
  IF key \in DOMAIN cache /\ now > cache[key].expiry
  THEN /\ evicted' = evicted \cup {key}
       /\ lastSet' = [lastSet EXCEPT ![key] = NoSet]
  ELSE UNCHANGED <<evicted, lastSet>>

\* the keys in gone are removed on request
RecordRemove(gone) ==
  /\ lastSet' = [k \in Keys |-> IF k \in gone THEN NoSet ELSE lastSet[k]]
  /\ evicted' = evicted

\* new MemoryCache(): nothing stored, no withCache call under way
CacheStart ==
  /\ cache = NoCache
  /\ wc = [p \in Callers |-> Idle]
  /\ op = NoOp
  /\ evicted = {}
  /\ lastSet = [k \in Keys |-> NoSet]
  /\ runs = [k \in Keys |-> 0]
  /\ misses = [k \in Keys |-> 0]

\* the rate limiter as the module load leaves it: no endpoint seen,
\* globalResetTime = Date.now() + 60000
RateStart ==
  /\ rateLimits = NoLimits
  /\ globalRequestCount = 0
  /\ globalResetTime = now + WindowMs
  /\ inflight = [e \in Endpoints |-> 0]
  /\ sent = [e \in Endpoints |-> 0]
  /\ sentGlobal = 0
  /\ failures = 0
  /\ rop = NoRop

\* the value of a result variable before the call that sets it
NotCalled == "not called"

\* no comparison of two wallets asked for
AssetsStart ==
  /\ assets1 = <<>>
  /\ assets2 = <<>>
  /\ common = <<>>
  /\ phase = "input"
  /\ swapped = NotCalled
  /\ aggregate1 = Absent
  /\ aggregate2 = Absent
  /\ similarity = NoMetrics
  /\ portfolio = NoPortfolio
  /\ extracted = NotExtracted

InitCache ==
  /\ now = 0
  /\ CacheStart
  /\ RateStart
  /\ FlowStart
  /\ apiKey = TRUE
  /\ bulk = "/user/follow"
  /\ AssetsStart

(***************************************************************************)
(* Operations on the cache                                                 *)
(***************************************************************************)
Get(key) ==
  /\ UNCHANGED <<rateVars, assetVars, flowVars>>
  /\ op' = [NoOp EXCEPT !.name = "get", !.key = key, !.ret = CacheGet(cache, key, now)]
  /\ cache' = CacheAfterGet(cache, key, now)
  /\ RecordRead(key)
  /\ UNCHANGED <<now, wc, runs, misses>>

Set(key, value, ttl) ==
  /\ UNCHANGED <<rateVars, assetVars, flowVars>>
  /\ cache' = CacheSet(cache, key, value, ttl, now)
  /\ op' = [NoOp EXCEPT !.name = "set", !.key = key]
  /\ RecordSet(key, value, ttl)
  /\ UNCHANGED <<now, wc>>

Delete(key) ==
  /\ UNCHANGED <<rateVars, assetVars, flowVars>>
  /\ cache' = CacheDelete(cache, key)
  /\ op' = [NoOp EXCEPT !.name = "delete", !.key = key]
  /\ RecordRemove({key})
  /\ UNCHANGED <<now, wc, runs, misses>>

Clear ==
  /\ UNCHANGED <<rateVars, assetVars, flowVars>>
  /\ cache' = CacheClear(cache)
  /\ op' = [NoOp EXCEPT !.name = "clear"]
  /\ RecordRemove(Keys)
  /\ UNCHANGED <<now, wc, runs, misses>>

DeletePattern(pattern) ==
  /\ UNCHANGED <<rateVars, assetVars, flowVars>>
  /\ cache' = CacheDeletePattern(cache, pattern)
  /\ op' = [NoOp EXCEPT !.name = "deletePattern", !.keys = pattern]
  /\ RecordRemove(pattern)
  /\ UNCHANGED <<now, wc, runs, misses>>

KeysCall ==
  /\ UNCHANGED <<rateVars, assetVars, flowVars>>
  /\ op' = [NoOp EXCEPT !.name = "keys", !.keys = CacheKeys(cache)]
  /\ UNCHANGED <<now, cacheVars>>

StatsCall ==
  /\ UNCHANGED <<rateVars, assetVars, flowVars>>
  /\ op' = [NoOp EXCEPT !.name = "stats",
                        !.size = CacheStats(cache, now).size,
                        !.active = CacheStats(cache, now).activeEntries]
  /\ UNCHANGED <<now, cacheVars>>

\* Date.now() advances by one second
Tick ==
  /\ UNCHANGED <<rateVars, assetVars, flowVars>>
  /\ now + MsPerSecond <= MaxNow
  /\ now' = now + MsPerSecond
  /\ op' = [NoOp EXCEPT !.name = "tick"]
  /\ UNCHANGED cacheVars

(***************************************************************************)
(* withCache(key, fn, ttlSeconds)                                          *)
(***************************************************************************)
\* up to the await: the read of the cache, then either the return of the
\* cached value or the invocation of fn
WithCacheStart(p, key, ttl) ==
  /\ UNCHANGED <<rateVars, assetVars, flowVars>>
  /\ wc[p].pc = "idle"
  /\ misses[key] < MaxRuns
  /\ runs[key] < MaxRuns
  /\ LET cached == CacheGet(cache, key, now) IN
       /\ cache' = CacheAfterGet(cache, key, now)
       /\ RecordRead(key)
       /\ misses' = IF Missing(cache, key, now)
                    THEN [misses EXCEPT ![key] = @ + 1] ELSE misses
       /\ IF WithCacheInvokes(cached)
          THEN /\ wc' = [wc EXCEPT ![p] = [pc |-> "awaiting", key |-> key, ttl |-> ttl]]
               /\ runs' = [runs EXCEPT ![key] = @ + 1]
               /\ op' = [NoOp EXCEPT !.name = "withCacheMiss", !.key = key]
          ELSE /\ wc' = wc
               /\ runs' = runs
               /\ op' = [NoOp EXCEPT !.name = "withCacheHit", !.key = key, !.ret = cached]
  /\ UNCHANGED now

\* fn resolved with result: the result is stored and returned
WithCacheResolve(p, result) ==
  /\ UNCHANGED <<rateVars, assetVars, flowVars>>
  /\ wc[p].pc = "awaiting"
  /\ cache' = CacheSet(cache, wc[p].key, result, wc[p].ttl, now)
  /\ RecordSet(wc[p].key, result, wc[p].ttl)
  /\ op' = [NoOp EXCEPT !.name = "withCacheStored", !.key = wc[p].key, !.ret = result]
  /\ wc' = [wc EXCEPT ![p] = Idle]
  /\ UNCHANGED now

\* a withCache that stores the first value at hand when fn rejects
WithCacheReject_Storing(p) ==
  /\ UNCHANGED <<rateVars, assetVars, flowVars>>
  /\ wc[p].pc = "awaiting"
  /\ cache' = CacheSet(cache, wc[p].key, "v1", wc[p].ttl, now)
  /\ RecordSet(wc[p].key, "v1", wc[p].ttl)
  /\ op' = [NoOp EXCEPT !.name = "withCacheRejected", !.key = wc[p].key]
  /\ wc' = [wc EXCEPT ![p] = Idle]
  /\ UNCHANGED now

\* fn rejected: the rejection leaves withCache before the set
WithCacheReject(p) ==
  /\ UNCHANGED <<rateVars, assetVars, flowVars>>
  /\ wc[p].pc = "awaiting"
  /\ op' = [NoOp EXCEPT !.name = "withCacheRejected", !.key = wc[p].key]
  /\ wc' = [wc EXCEPT ![p] = Idle]
  /\ UNCHANGED <<now, cache, evicted, lastSet, runs, misses>>

(***************************************************************************)
(* neynarRequest(endpoint, options)                                        *)
(***************************************************************************)
InitRate ==
  /\ now = 0
  /\ RateStart
  /\ FlowStart
  /\ apiKey \in BOOLEAN
  /\ bulk \in Endpoints
  /\ CacheStart
  /\ AssetsStart

InflightTotal == inflight["/user/follow"] + inflight["/signer"]

\* the windows checkRateLimit(endpoint) starts anew begin with nothing sent
CheckSent(endpoint) ==
  [e \in Endpoints |->
     IF e = endpoint /\ EndpointWindowPassed(rateLimits, endpoint, now) THEN 0 ELSE sent[e]]

CheckSentGlobal == IF GlobalWindowPassed(globalResetTime, now) THEN 0 ELSE sentGlobal

\* what checkRateLimit(endpoint) does to the limiter
Check(endpoint) ==
  /\ rateLimits' = CheckLimits(rateLimits, endpoint, now)
  /\ globalRequestCount' = CheckGlobalCount(globalRequestCount, globalResetTime, now)
  /\ globalResetTime' = CheckGlobalReset(globalResetTime, now)

\* the traffic the model sends to an endpoint: unbounded on the bulk
\* endpoint, MaxLightCalls fetches per window, one after the other, on
\* the others
Admits(endpoint) ==
  \/ endpoint = bulk
  \/ CheckSent(endpoint)[endpoint] < MaxLightCalls /\ inflight[endpoint] = 0

\* a neynarRequest that sends the fetch again after the limiter's refusal
RequestRejected_Retrying(endpoint) ==
  /\ ~CheckRateLimit(rateLimits, globalRequestCount, globalResetTime, endpoint, now)
  /\ InflightTotal < MaxInflight
  /\ Check(endpoint)
  /\ inflight' = [inflight EXCEPT ![endpoint] = @ + 1]
  /\ sent' = [CheckSent(endpoint) EXCEPT ![endpoint] = @ + 1]
  /\ sentGlobal' = CheckSentGlobal + 1
  /\ rop' = [name |-> "rejected", endpoint |-> endpoint, allowed |-> FALSE,
             before |-> Before(rateLimits, endpoint)]
  /\ UNCHANGED <<now, op, cacheVars, assetVars, flowVars, apiKey, bulk, failures>>

\* checkRateLimit answered false: throw new Error('Rate limit exceeded ...')
RequestRejected(endpoint) ==
  /\ ~CheckRateLimit(rateLimits, globalRequestCount, globalResetTime, endpoint, now)
  /\ Check(endpoint)
  /\ sent' = CheckSent(endpoint)
  /\ sentGlobal' = CheckSentGlobal
  /\ rop' = [name |-> "rejected", endpoint |-> endpoint, allowed |-> FALSE,
             before |-> Before(rateLimits, endpoint)]
  /\ UNCHANGED <<now, op, cacheVars, assetVars, flowVars, apiKey, inflight, bulk, failures>>

\* checkRateLimit answered true, but no API key: throw before the fetch
RequestNoKey(endpoint) ==
  /\ CheckRateLimit(rateLimits, globalRequestCount, globalResetTime, endpoint, now)
  /\ ~apiKey
  /\ Check(endpoint)
  /\ sent' = CheckSent(endpoint)
  /\ sentGlobal' = CheckSentGlobal
  /\ rop' = [name |-> "nokey", endpoint |-> endpoint, allowed |-> TRUE,
             before |-> Before(rateLimits, endpoint)]
  /\ UNCHANGED <<now, op, cacheVars, assetVars, flowVars, apiKey, inflight, bulk, failures>>

\* checkRateLimit answered true: the fetch is dispatched and awaited
RequestDispatch(endpoint) ==
  /\ InflightTotal < MaxInflight
  /\ Admits(endpoint)
  /\ CheckRateLimit(rateLimits, globalRequestCount, globalResetTime, endpoint, now)
  /\ apiKey
  /\ Check(endpoint)
  /\ inflight' = [inflight EXCEPT ![endpoint] = @ + 1]
  /\ sent' = [CheckSent(endpoint) EXCEPT ![endpoint] = @ + 1]
  /\ sentGlobal' = CheckSentGlobal + 1
  /\ rop' = [name |-> "dispatched", endpoint |-> endpoint, allowed |-> TRUE,
             before |-> Before(rateLimits, endpoint)]
  /\ UNCHANGED <<now, op, cacheVars, assetVars, flowVars, apiKey, bulk, failures>>

\* the fetch resolved with a response: updateRateLimit(endpoint)
RequestResponse(endpoint) ==
  /\ inflight[endpoint] > 0
  /\ inflight' = [inflight EXCEPT ![endpoint] = @ - 1]
  /\ rateLimits' = UpdateLimits(rateLimits, endpoint)
  /\ globalRequestCount' = UpdateGlobalCount(globalRequestCount)
  /\ rop' = NoRop
  /\ UNCHANGED <<now, op, cacheVars, assetVars, flowVars, globalResetTime, apiKey, bulk, sent, sentGlobal, failures>>

\* the fetch rejected (network error): the catch block rethrows; the
\* network fails MaxFailures fetches, all of them on the bulk endpoint
RequestFetchFailed(endpoint) ==
  /\ inflight[endpoint] > 0
  /\ failures < MaxFailures
  /\ endpoint = bulk
  /\ failures' = failures + 1
  /\ inflight' = [inflight EXCEPT ![endpoint] = @ - 1]
  /\ rop' = NoRop
  /\ UNCHANGED <<now, op, cacheVars, assetVars, flowVars, rateLimits, globalRequestCount, globalResetTime,
                 apiKey, bulk, sent, sentGlobal>>

\* Date.now() advances: first to the end of the window that began at 0,
\* then past the end of every window begun so far
TickRate ==
  /\ now' = now + (IF now = 0 THEN WindowMs ELSE WindowMs + 1)
  /\ now' <= MaxRateNow
  /\ rop' = NoRop
  /\ UNCHANGED <<op, cacheVars, assetVars, flowVars, rateLimits, globalRequestCount, globalResetTime,
                 apiKey, inflight, bulk, sent, sentGlobal, failures>>

NextRate ==
  \/ \E e \in Endpoints : RequestRejected(e)
  \/ \E e \in Endpoints : RequestNoKey(e)
  \/ \E e \in Endpoints : RequestDispatch(e)
  \/ \E e \in Endpoints : RequestResponse(e)
  \/ \E e \in Endpoints : RequestFetchFailed(e)
  \/ TickRate

SpecRate == InitRate /\ [][NextRate]_vars

(***************************************************************************)
(* findCommonAssets applied to two asset lists                             *)
(***************************************************************************)
ListsUpTo(n) == UNION {[1..m -> AssetPool] : m \in 0..n}

InitAssets ==
  /\ assets1 \in ListsUpTo(MaxAssets1)
  /\ assets2 \in ListsUpTo(MaxAssets2)
  /\ common = <<>>
  /\ phase = "input"
  /\ swapped = NotCalled
  /\ aggregate1 = Absent
  /\ aggregate2 = Absent
  /\ similarity = NoMetrics
  /\ portfolio = NoPortfolio
  /\ extracted = NotExtracted
  /\ now = 0
  /\ CacheStart
  /\ RateStart
  /\ FlowStart
  /\ apiKey = TRUE
  /\ bulk = "/user/follow"

FindCommon ==
  /\ phase = "input"
  /\ common' = FindCommonAssets(assets1, assets2)
  /\ phase' = "done"
  /\ UNCHANGED <<now, op, cacheVars, rateVars, flowVars, assets1, assets2, swapped, scoreVars, extractVars>>

\* findCommonAssets(assets2, assets1): the same two wallets, compared from
\* the other user's side
FindCommonSwapped ==
  /\ phase = "done"
  /\ swapped = NotCalled
  /\ swapped' = FindCommonAssets(assets2, assets1)
  /\ UNCHANGED <<now, op, cacheVars, rateVars, flowVars, assets1, assets2, common, phase, scoreVars, extractVars>>

NextAssets ==
  \/ FindCommon
  \/ FindCommonSwapped

(***************************************************************************)
(* calculateSimilarity applied to two asset lists, their common assets and *)
(* the aggregates of their portfolios                                      *)
(***************************************************************************)
ScoredListsUpTo(n) == UNION {[1..m -> ScoredPool] : m \in 0..n}

InitSimilarity ==
  /\ assets1 \in ScoredListsUpTo(MaxScored1)
  /\ assets2 \in ScoredListsUpTo(MaxScored2)
  /\ common = <<>>
  /\ phase = "input"
  /\ swapped = NotCalled
  /\ aggregate1 = Absent
  /\ aggregate2 = Absent
  /\ similarity = NoMetrics
  /\ portfolio = NoPortfolio
  /\ extracted = NotExtracted
  /\ now = 0
  /\ CacheStart
  /\ RateStart
  /\ FlowStart
  /\ apiKey = TRUE
  /\ bulk = "/user/follow"

CalculateSimilarity(agg1, agg2) ==
  /\ phase = "done"
  /\ similarity = NoMetrics
  /\ aggregate1' = agg1
  /\ aggregate2' = agg2
  /\ similarity' = CalculateSimilarityOf(assets1, assets2, common, agg1, agg2)
  /\ UNCHANGED <<now, op, cacheVars, rateVars, flowVars, matchVars, extractVars>>

(***************************************************************************)
(* extractTokenAssets applied to a portfolio                               *)
(***************************************************************************)
InitExtract ==
  /\ portfolio \in PortfoliosUpTo(MaxEdges)
  /\ extracted = NotExtracted
  /\ assets1 = <<>>
  /\ assets2 = <<>>
  /\ common = <<>>
  /\ phase = "input"
  /\ swapped = NotCalled
  /\ aggregate1 = Absent
  /\ aggregate2 = Absent
  /\ similarity = NoMetrics
  /\ now = 0
  /\ CacheStart
  /\ RateStart
  /\ FlowStart
  /\ apiKey = TRUE
  /\ bulk = "/user/follow"

Extract ==
  /\ ~extracted.called
  /\ extracted' = ExtractTokenAssets(portfolio)
  /\ UNCHANGED <<now, op, cacheVars, rateVars, flowVars, matchVars, scoreVars, portfolio>>

NextExtract == Extract

SpecExtract == InitExtract /\ [][NextExtract]_vars

(***************************************************************************)
(* The wallet-overlap route answering one request                          *)
(***************************************************************************)
InitOverlap ==
  /\ now = 0
  /\ CacheStart
  /\ RateStart
  /\ FlowStart
  /\ apiKey = TRUE
  /\ bulk = "/user/follow"
  /\ AssetsStart

\* lines 17-46: up to the await of the two profiles
OverlapPostOf(body, useMockData) ==
  /\ overlapReq.pc = "idle"
  /\ overlapReq' = [overlapReq EXCEPT !.body = body, !.useMockData = useMockData,
                       !.pc = IF body = "ok" /\ ~useMockData
                              THEN "profiles" ELSE "responded"]
  /\ overlapRes' = IF body = "malformed" THEN ErrorResponse(500)
                    ELSE IF body = "noFids" THEN ErrorResponse(400)
                    ELSE IF useMockData THEN MockResponse
                    ELSE overlapRes

\* a client posts a body of its own making
OverlapPost(body, useMockData) ==
  /\ OverlapPostOf(body, useMockData)
  /\ overlapCall' = [NoCall EXCEPT !.caller = "client"]
  /\ UNCHANGED <<now, op, cacheVars, rateVars, assetVars, followVars, pageVars>>

\* test.ts 46-71: testWalletOverlapApi(userFid, profileFid)
TestWalletOverlapApi(userFid, profileFid) ==
  /\ OverlapPostOf(BodyKind(CallerBody(userFid, profileFid)), FALSE)
  /\ overlapCall' = [caller |-> "testWalletOverlapApi", userFid |-> userFid,
                      profileFid |-> profileFid]
  /\ UNCHANGED <<now, op, cacheVars, rateVars, assetVars, followVars, pageVars>>

\* CardStack.tsx 40-71: fetchWalletOverlap(profileFid), which posts
\* nothing when localStorage holds no FID for the user
FetchWalletOverlap(userFid, profileFid) ==
  /\ userFid # 0
  /\ OverlapPostOf(BodyKind(CallerBody(userFid, profileFid)), FALSE)
  /\ overlapCall' = [caller |-> "fetchWalletOverlap", userFid |-> userFid,
                      profileFid |-> profileFid]
  /\ UNCHANGED <<now, op, cacheVars, rateVars, assetVars, followVars, pageVars>>

\* lines 43-74: the profiles settle; up to the await of the two portfolios
OverlapProfiles(user, target) ==
  /\ overlapReq.pc = "profiles"
  /\ overlapReq' = [overlapReq EXCEPT !.user = user, !.target = target,
                       !.pc = IF user = "addresses" /\ target = "addresses"
                              THEN "portfolios" ELSE "responded"]
  /\ overlapRes' = IF user = "failed" \/ target = "failed" THEN ErrorResponse(500)
                    ELSE IF user = "noAddresses" \/ target = "noAddresses" THEN Zeroed
                    ELSE overlapRes
  /\ UNCHANGED <<now, op, cacheVars, rateVars, assetVars, followVars, pageVars, overlapCall>>

\* lines 71-118: the portfolios settle and the response is computed
OverlapPortfolios(userPortfolio, targetPortfolio) ==
  /\ overlapReq.pc = "portfolios"
  /\ overlapReq' = [overlapReq EXCEPT !.userPortfolio = userPortfolio,
                       !.targetPortfolio = targetPortfolio, !.pc = "responded"]
  /\ overlapRes' = IF userPortfolio = FetchFailed \/ targetPortfolio = FetchFailed
                    THEN ErrorResponse(500)
                    ELSE ComputedResponse(userPortfolio, targetPortfolio)
  /\ UNCHANGED <<now, op, cacheVars, rateVars, assetVars, followVars, pageVars, overlapCall>>

NextOverlap ==
  \/ \E body \in Bodies, useMockData \in BOOLEAN : OverlapPost(body, useMockData)
  \/ \E userFid, profileFid \in Fids : TestWalletOverlapApi(userFid, profileFid)
  \/ \E userFid, profileFid \in Fids : FetchWalletOverlap(userFid, profileFid)
  \/ \E user, target \in ProfileOutcomes : OverlapProfiles(user, target)
  \/ \E userPortfolio, targetPortfolio \in PortfolioOutcomes(MaxRouteEdges) :
       OverlapPortfolios(userPortfolio, targetPortfolio)

SpecOverlap == InitOverlap /\ [][NextOverlap]_vars

(***************************************************************************)
(* The follow flow: a card of the UI, other clients, the follow route and  *)
(* the user approving or revoking signers on Warpcast                      *)
(***************************************************************************)
InitFollow ==
  /\ now = 0
  /\ CacheStart
  /\ RateStart
  /\ FlowStart
  /\ apiKey = TRUE
  /\ bulk = "/user/follow"
  /\ AssetsStart

FollowFrame == UNCHANGED <<now, op, cacheVars, rateVars, assetVars, routeVars, pageVars>>

\* the user approves a pending signer
Approve(id) ==
  /\ signers[id] = "pending_approval"
  /\ signers' = [signers EXCEPT ![id] = "approved"]
  /\ FollowFrame
  /\ UNCHANGED <<stored, card, followReq, followRes, follows, clicks, posts>>

\* the user revokes an approved signer
Revoke(id) ==
  /\ signers[id] = "approved"
  /\ signers' = [signers EXCEPT ![id] = "revoked"]
  /\ FollowFrame
  /\ UNCHANGED <<stored, card, followReq, followRes, follows, clicks, posts>>

\* Card.tsx 224-245: the click; a stored signer that is valid is used,
\* otherwise a signer is asked for
CardClick ==
  /\ card.pc = "idle"
  /\ clicks < MaxClicks
  /\ clicks' = clicks + 1
  /\ card' = IF IsSignerValid(stored)
              THEN [pc |-> "checking", signerUuid |-> stored.signer_uuid]
              ELSE [pc |-> "creating", signerUuid |-> ""]
  /\ FollowFrame
  /\ UNCHANGED <<signers, stored, followReq, followRes, follows, posts>>

\* Card.tsx 246-286: POST /api/signer answered; the signer is stored, and
\* the flow ends here when it comes with an approval url
CardCreated(i, withUrl) ==
  /\ card.pc = "creating"
  /\ signers[SignerId(i)] = "unknown"
  /\ \A j \in 1..(i - 1) : signers[SignerId(j)] # "unknown"
  /\ signers' = [signers EXCEPT ![SignerId(i)] = "pending_approval"]
  /\ LET id == SignerId(i)
         url == IF withUrl THEN ApprovalUrl(id, "pending_approval") ELSE ""
         signerData == SignerData(id, "pending_approval", url)
     IN /\ stored' = signerData
        /\ card' = IF NotApproved(signerData.status) /\ url # ""
                    THEN CardIdle
                    ELSE [pc |-> "checking", signerUuid |-> id]
  /\ FollowFrame
  /\ UNCHANGED <<followReq, followRes, follows, clicks, posts>>

\* Card.tsx 254-257, 281-285: the request for a signer failed
CardCreateFailed ==
  /\ card.pc = "creating"
  /\ card' = CardIdle
  /\ FollowFrame
  /\ UNCHANGED <<signers, stored, followReq, followRes, follows, clicks, posts>>

\* Card.tsx 288-323: GET /api/signer answered with the status Neynar
\* has; it is stored, and the flow goes on when it is approved
CardChecked ==
  /\ card.pc = "checking"
  /\ signers[card.signerUuid] # "unknown"
  /\ LET status == signers[card.signerUuid] IN
       /\ stored' = SignerData(card.signerUuid, status, ApprovalUrl(card.signerUuid, status))
       /\ card' = IF NotApproved(status) THEN CardIdle
                   ELSE [card EXCEPT !.pc = "posting"]
  /\ FollowFrame
  /\ UNCHANGED <<signers, followReq, followRes, follows, clicks, posts>>

\* Card.tsx 290-294, 318-322: the status request failed
CardCheckFailed ==
  /\ card.pc = "checking"
  /\ card' = CardIdle
  /\ FollowFrame
  /\ UNCHANGED <<signers, stored, followReq, followRes, follows, clicks, posts>>

\* part_009 9-57: the route up to the await of checkSignerStatus; uuid ""
\* stands for a missing signerUuid, targetOk for a targetFid that is a number
FollowPostOf(signerUuid, targetOk, byCard) ==
  /\ followReq.pc = "idle"
  /\ IF signerUuid = "" \/ ~targetOk
     THEN /\ followRes' = FollowResponse(400, "", "")
          /\ followReq' = [NoFollowReq EXCEPT !.pc = "responded", !.byCard = byCard]
     ELSE IF signerUuid = "test-approved"
     THEN /\ followRes' = FollowResponse(200, "success", "")
          /\ followReq' = [NoFollowReq EXCEPT !.pc = "responded", !.byCard = byCard,
                                               !.signerUuid = signerUuid]
     ELSE IF signerUuid = "test-pending"
     THEN /\ followRes' = FollowResponse(403, "pending_approval", TestApprovalUrl)
          /\ followReq' = [NoFollowReq EXCEPT !.pc = "responded", !.byCard = byCard,
                                               !.signerUuid = signerUuid]
     ELSE /\ followRes' = NoFollowRes
          /\ followReq' = [pc |-> "checking", signerUuid |-> signerUuid,
                            checked |-> "", byCard |-> byCard, refused |-> FALSE]

\* Card.tsx 324-335: the card posts to the follow route
CardPost ==
  /\ card.pc = "posting"
  /\ FollowPostOf(card.signerUuid, TRUE, TRUE)
  /\ card' = [card EXCEPT !.pc = "following"]
  /\ FollowFrame
  /\ UNCHANGED <<signers, stored, follows, clicks, posts>>

\* another client posts to the follow route
ClientPost(signerUuid, targetOk) ==
  /\ posts < MaxPosts
  /\ posts' = posts + 1
  /\ FollowPostOf(signerUuid, targetOk, FALSE)
  /\ FollowFrame
  /\ UNCHANGED <<signers, stored, card, follows, clicks>>

\* part_009 61-75: checkSignerStatus answered; a signer that is not
\* approved is answered 403, for an approved one followUser is called,
\* and neynarRequest dispatches the follow when checkRateLimit admits it
\* and throws its rate limit error when not
FollowChecked(admitted) ==
  /\ followReq.pc = "checking"
  /\ signers[followReq.signerUuid] # "unknown"
  /\ LET status == signers[followReq.signerUuid] IN
       IF NotApproved(status)
       THEN /\ followRes' = FollowResponse(403, status,
                                            ApprovalUrl(followReq.signerUuid, status))
            /\ followReq' = [followReq EXCEPT !.pc = "responded", !.checked = status]
            /\ follows' = follows
       ELSE IF admitted
       THEN /\ followRes' = followRes
            /\ followReq' = [followReq EXCEPT !.pc = "following", !.checked = status]
            /\ follows' = Append(follows, [signerUuid |-> followReq.signerUuid,
                                            status |-> signers[followReq.signerUuid]])
       ELSE /\ followRes' = FollowError(FollowRateLimited)
            /\ followReq' = [followReq EXCEPT !.pc = "responded", !.checked = status,
                                               !.refused = TRUE]
            /\ follows' = follows
  /\ FollowFrame
  /\ UNCHANGED <<signers, stored, card, clicks, posts>>

\* part_009 82-88: checkSignerStatus threw, refused by checkRateLimit
\* (limited) or failed in another way
FollowCheckFailed(limited) ==
  /\ followReq.pc = "checking"
  /\ followRes' = FollowError(IF limited THEN SignerRateLimited ELSE NeynarFailed)
  /\ followReq' = [followReq EXCEPT !.pc = "responded", !.refused = limited]
  /\ FollowFrame
  /\ UNCHANGED <<signers, stored, card, follows, clicks, posts>>

\* part_009 75-88: followUser settled
FollowSettled(ok) ==
  /\ followReq.pc = "following"
  /\ followRes' = IF ok THEN FollowResponse(200, "", "") ELSE FollowError(NeynarFailed)
  /\ followReq' = [followReq EXCEPT !.pc = "responded"]
  /\ FollowFrame
  /\ UNCHANGED <<signers, stored, card, follows, clicks, posts>>

\* the response reaches its client; Card.tsx 337-351 for the card
FollowAnswered ==
  /\ followReq.pc = "responded"
  /\ followReq' = NoFollowReq
  /\ followRes' = NoFollowRes
  /\ card' = IF followReq.byCard THEN CardIdle ELSE card
  /\ FollowFrame
  /\ UNCHANGED <<signers, stored, follows, clicks, posts>>

NextFollow ==
  \/ \E id \in SignerIds : Approve(id)
  \/ \E id \in SignerIds : Revoke(id)
  \/ CardClick
  \/ \E i \in 1..MaxSigners, withUrl \in BOOLEAN : CardCreated(i, withUrl)
  \/ CardCreateFailed
  \/ CardChecked
  \/ CardCheckFailed
  \/ CardPost
  \/ \E signerUuid \in SignerIds \cup TestIds \cup {""}, targetOk \in BOOLEAN :
       ClientPost(signerUuid, targetOk)
  \/ \E admitted \in BOOLEAN : FollowChecked(admitted)
  \/ \E limited \in BOOLEAN : FollowCheckFailed(limited)
  \/ \E ok \in BOOLEAN : FollowSettled(ok)
  \/ FollowAnswered

SpecFollow == InitFollow /\ [][NextFollow]_vars

NextSimilarity ==
  \/ FindCommon
  \/ \E agg1, agg2 \in Aggregates : CalculateSimilarity(agg1, agg2)

SpecSimilarity == InitSimilarity /\ [][NextSimilarity]_vars

SpecAssets == InitAssets /\ [][NextAssets]_vars

NextCache ==
  \/ \E k \in Keys : Get(k)
  \/ \E k \in Keys, v \in Values \cup {Null}, ttl \in TTLs : Set(k, v, ttl)
  \/ \E k \in Keys : Delete(k)
  \/ Clear
  \/ \E pat \in Patterns : DeletePattern(pat)
  \/ KeysCall
  \/ StatsCall
  \/ Tick

SpecCache == InitCache /\ [][NextCache]_vars

\* overlapping withCache calls on one key, racing with direct reads, writes
\* and deletes of that key
NextWithCache ==
  \/ \E p \in Callers, k \in WcKeys, ttl \in TTLs : WithCacheStart(p, k, ttl)
  \/ \E p \in Callers, v \in Values \cup {Null} : WithCacheResolve(p, v)
  \/ \E p \in Callers : WithCacheReject(p)
  \/ \E k \in WcKeys : Get(k)
  \/ \E k \in WcKeys, v \in Values \cup {Null}, ttl \in TTLs : Set(k, v, ttl)
  \/ \E k \in WcKeys : Delete(k)
  \/ Tick

SpecWithCache == InitCache /\ [][NextWithCache]_vars

(***************************************************************************)
(* Properties of MemoryCache                         (checked in SpecCache) *)
(***************************************************************************)
\* the entry get(key) finds is past its expiry
Stale(c, key, t) == key \in DOMAIN c /\ t > c[key].expiry

\* C1: get(k) returns a value only if an entry for k is stored and the
\* current time does not exceed its expiry, and then it is the stored value;
\* if k is absent or the current time exceeds the expiry, get(k) returns null.
C1_GetNeverStale ==
  [][op'.name = "get" =>
       /\ op'.ret # Null =>
            /\ op'.key \in DOMAIN cache
            /\ now <= cache[op'.key].expiry
            /\ op'.ret = cache[op'.key].value
       /\ (op'.key \notin DOMAIN cache \/ now > cache[op'.key].expiry) =>
            op'.ret = Null]_vars

\* a get found the entry expired and answered with a miss
C1_Witness ==
  /\ op.name = "get"
  /\ op.key \in evicted
  /\ op.ret = Null
  /\ now > 0

\* C2: a get(k) after the TTL has elapsed returns a miss and removes the
\* entry, a keys() made after that get (and before k is set again) does not
\* contain k, and a get(k) that directly follows set(k, v, ttl) returns v.
C2_EvictionOnRead ==
  [][/\ (op'.name = "get" /\ Stale(cache, op'.key, now)) =>
          (op'.ret = Null /\ op'.key \notin CacheKeys(cache'))
     /\ op'.name = "keys" => op'.keys \cap evicted' = {}
     /\ (op.name = "set" /\ op'.name = "get" /\ op'.key = op.key) =>
          op'.ret = lastSet[op.key].value]_vars

\* keys() is called after a get evicted an expired key, and leaves it out
C2_Witness ==
  /\ op.name = "keys"
  /\ evicted # {}
  /\ \E k \in Keys \ evicted : k \in op.keys

\* C19: time passing, keys(), stats() and a set on another key remove no
\* entry, and keys() returns exactly the keys set and not removed since by
\* delete, clear, deletePattern or a get after expiry, expired or not
C19_LazyEviction ==
  [][/\ op'.name \in {"tick", "keys", "stats"} => cache' = cache
     /\ op'.name = "set" =>
          \A k \in Keys \ {op'.key} :
            /\ k \in DOMAIN cache' <=> k \in DOMAIN cache
            /\ k \in DOMAIN cache => cache'[k] = cache[k]
     /\ op'.name = "keys" => op'.keys = {k \in Keys : lastSet[k].done}]_vars

\* keys() lists a key whose expiry has passed, next to one set after that
C19_Witness ==
  /\ op.name = "keys"
  /\ \E k1, k2 \in op.keys :
       /\ now > cache[k1].expiry
       /\ lastSet[k2].at > cache[k1].expiry

(***************************************************************************)
(* Properties of withCache                       (checked in SpecWithCache) *)
(***************************************************************************)
Awaiting(key) == {p \in Callers : wc[p].pc = "awaiting" /\ wc[p].key = key}

\* C3: every stored entry holds the value of the most recent set of its key
\* and expires ttl seconds after that set, whoever made it, and a get of a
\* stored, unexpired key returns that value.
C3_LastSetWins ==
  /\ \A k \in DOMAIN cache :
       /\ lastSet[k].done
       /\ cache[k].value = lastSet[k].value
       /\ cache[k].expiry = lastSet[k].at + (lastSet[k].ttl * 1000)
  /\ (op.name = "get" /\ op.key \in DOMAIN cache /\ now <= cache[op.key].expiry) =>
       op.ret = lastSet[op.key].value

\* a withCache call stored its result over the entry of a racing call that
\* is still waiting for its producer
C3_Witness ==
  \E k \in Keys :
    /\ op.name = "withCacheStored"
    /\ op.key = k
    /\ op.ret \in Values
    /\ cache[k].value = op.ret
    /\ Awaiting(k) # {}

\* a step of withCache up to its await, on a key with an unexpired entry
StartsOnStored ==
  /\ op'.name \in {"withCacheHit", "withCacheMiss"}
  /\ op'.key \in DOMAIN cache
  /\ now <= cache[op'.key].expiry

\* the step returned the stored value, ran no producer and left the cache
ReturnsStored ==
  /\ op'.name = "withCacheHit"
  /\ op'.ret = cache[op'.key].value
  /\ cache' = cache
  /\ runs' = runs
  /\ wc' = wc

\* C4 as claimed: withCache on a key with a non-expired entry returns the
\* stored value without invoking the producer and without modifying the
\* cache.
C4_HitSkipsProducer == [][StartsOnStored => ReturnsStored]_vars

\* C4 as amended: withCache on a key with a non-expired entry whose value
\* is not null returns the stored value without invoking the producer and
\* without modifying the cache.
C4_NonNullHitSkipsProducer ==
  [][(StartsOnStored /\ cache[op'.key].value # Null) => ReturnsStored]_vars

\* a withCache call returned a stored value
C4_Witness ==
  /\ op.name = "withCacheHit"
  /\ op.ret \in Values
  /\ op.key \in DOMAIN cache
  /\ cache[op.key].value = op.ret

\* C5 as claimed: of the overlapping withCache calls on one key that began
\* while the key was missing, at most two have the producer running.
C5_AtMostTwice == \A k \in Keys : Cardinality(Awaiting(k)) <= 2

\* C5 as amended: the producer runs once for every withCache call that
\* began while the key was missing, and for no other call: n overlapping
\* calls run it up to n times before a value is stored.
C5_OncePerMissingCall ==
  \A k \in Keys : runs[k] <= misses[k]

\* three overlapping calls on one key all have their producer running
C5_Witness ==
  \E k \in Keys : Cardinality(Awaiting(k)) = 3 /\ runs[k] = 3

(***************************************************************************)
(* Properties of the rate limiter                     (checked in SpecRate) *)
(***************************************************************************)
\* an endpoint under the default limit of 300
DefaultLimited(e) == e # "/frame/validate" /\ ~IncludesSigner(e)

\* a step in which neynarRequest called checkRateLimit
Checked == rop'.name \in {"rejected", "nokey", "dispatched"}

\* C6: with 300 calls recorded in the current window of a default-limit
\* endpoint allow answers false until the window's reset time, and once the
\* clock is past the reset time, with the global count below 500, allow
\* answers true.
C6_WindowReset ==
  [][\A e \in Endpoints :
       (Checked /\ rop'.endpoint = e /\ e \in DOMAIN rateLimits
          /\ DefaultLimited(e)) =>
         /\ (rateLimits[e].requests >= 300 /\ now <= rateLimits[e].resetTime) =>
              ~rop'.allowed
         /\ (now > rateLimits[e].resetTime /\ globalRequestCount' < 500) =>
              rop'.allowed]_vars

\* a request was let through after a window with 300 recorded calls passed
C6_Witness ==
  /\ rop.name = "dispatched"
  /\ rop.endpoint = "/user/follow"
  /\ rop.before = 300
  /\ rateLimits["/user/follow"].requests = 0
  /\ rateLimits["/user/follow"].resetTime = now + 60000

\* C7: every request that passed allow and was dispatched adds exactly one
\* to the endpoint counter and to the global counter by the time it
\* settles, and a request rejected by allow adds to neither.
C7_CountsExactly ==
  [][/\ \A e \in Endpoints :
          inflight'[e] < inflight[e] =>
            /\ rateLimits'[e].requests = rateLimits[e].requests + 1
            /\ globalRequestCount' = globalRequestCount + 1
     /\ rop'.name = "rejected" =>
          /\ globalRequestCount' <= globalRequestCount
          /\ \A e \in DOMAIN rateLimits :
               rateLimits'[e].requests <= rateLimits[e].requests]_vars

\* C8 as claimed: a call of checkRateLimit leaves the endpoint counters,
\* the global counter and all reset times as they were.
C8_PureCheck ==
  [][Checked => UNCHANGED <<rateLimits, globalRequestCount, globalResetTime>>]_vars

\* C8 as amended: a call of checkRateLimit(endpoint) never adds to a
\* counter; it leaves every window that has not passed as it was, and
\* starts anew (count 0, reset time now + 60000) the endpoint's window when
\* the endpoint has none or now is past its reset time, and the global
\* window when now is past the global reset time.
C8_CheckOnlyResets ==
  [][Checked =>
       LET e == rop'.endpoint IN
       /\ \A f \in DOMAIN rateLimits :
            (f # e \/ now <= rateLimits[f].resetTime) => rateLimits'[f] = rateLimits[f]
       /\ (e \notin DOMAIN rateLimits \/ now > rateLimits[e].resetTime) =>
            rateLimits'[e] = [requests |-> 0, resetTime |-> now + 60000]
       /\ DOMAIN rateLimits' = (DOMAIN rateLimits) \cup {e}
       /\ IF now > globalResetTime
          THEN globalRequestCount' = 0 /\ globalResetTime' = now + 60000
          ELSE UNCHANGED <<globalRequestCount, globalResetTime>>]_vars

\* a call of checkRateLimit started both the endpoint's and the global
\* window anew
C8_Witness ==
  /\ rop.name \in {"rejected", "nokey", "dispatched"}
  /\ rop.before > 0
  /\ rateLimits[rop.endpoint].resetTime = now + 60000
  /\ globalResetTime = now + 60000
  /\ now > 60000

\* C9: between two resets of its window no more than 300 requests are sent
\* to a default-limit endpoint, and between two resets of the global window
\* no more than 500 requests are sent overall.
C9_WithinLimits ==
  /\ \A e \in Endpoints : DefaultLimited(e) => sent[e] <= 300
  /\ sentGlobal <= 500

(***************************************************************************)
(* Properties of the matcher                        (checked in SpecAssets) *)
(***************************************************************************)
\* the positions of list1 whose network and address both occur together in
\* list2
MatchedPositions(list1, list2) ==
  {i \in 1..Len(list1) :
     \E j \in 1..Len(list2) :
       list1[i].network = list2[j].network /\ list1[i].address = list2[j].address}

\* the asset of the first list a CommonAsset was made from
Side1(c) == Asset(c.network, c.address, c.symbol, c.user1USD)

\* C10: findCommonAssets(A, B) holds exactly one CommonAsset for each
\* element of A whose network and address are those of some element of B,
\* and nothing else.
C10_Intersection ==
  phase = "done" =>
    /\ Len(common) = Cardinality(MatchedPositions(assets1, assets2))
    /\ \A a \in AssetPool :
         Cardinality({k \in 1..Len(common) : Side1(common[k]) = a})
           = Cardinality({i \in MatchedPositions(assets1, assets2) : assets1[i] = a})
    /\ \A k \in 1..Len(common) :
         \E j \in 1..Len(assets2) :
           /\ common[k].network = assets2[j].network
           /\ common[k].address = assets2[j].address
           /\ common[k].user2USD = assets2[j].balanceUSD

\* one asset matched an asset with another symbol, and one did not match an
\* asset with its address on another network
C10_Witness ==
  /\ phase = "done"
  /\ Len(common) = 1
  /\ Len(assets1) = 2
  /\ \E j \in 1..Len(assets2) :
       /\ GetAssetKey(assets2[j]) = GetAssetKey(common[1])
       /\ assets2[j].symbol # common[1].symbol
  /\ \E i \in 1..Len(assets1), j \in 1..Len(assets2) :
       /\ assets1[i].address = assets2[j].address
       /\ assets1[i].network # assets2[j].network
       /\ assets1[i].network # common[1].network

\* the identity keys of the CommonAssets of a list
CommonKeys(list) == {GetAssetKey(list[k]) : k \in 1..Len(list)}

\* C11: the identity keys of findCommonAssets(A, B) are those of
\* findCommonAssets(B, A)
C11_IdentitySymmetry ==
  swapped # NotCalled => CommonKeys(common) = CommonKeys(swapped)

\* the two wallets share keys, hold them in a different number of assets,
\* and the two results differ while their keys agree
C11_Witness ==
  /\ swapped # NotCalled
  /\ CommonKeys(common) # {}
  /\ Len(common) # Len(swapped)
  /\ CommonKeys(common) = CommonKeys(swapped)

\* from assigns to each element of common the position in assets1 of the
\* asset it was made from, no position twice
MadeFrom(from) ==
  /\ \A k \in 1..Len(common) : Side1(common[k]) = assets1[from[k]]
  /\ \A k1, k2 \in 1..Len(common) : k1 # k2 => from[k1] # from[k2]

\* C12: common is ordered by totalBalanceUSD, highest first, and assets
\* with equal totalBalanceUSD keep the order they have in the first list
C12_SortedStable ==
  phase = "done" =>
    \E from \in [1..Len(common) -> 1..Len(assets1)] :
      /\ MadeFrom(from)
      /\ \A k1, k2 \in 1..Len(common) :
           k1 < k2 =>
             /\ common[k1].totalBalanceUSD >= common[k2].totalBalanceUSD
             /\ common[k1].totalBalanceUSD = common[k2].totalBalanceUSD
                  => from[k1] < from[k2]

\* three common assets, the first of the first list worth less than the
\* other two, which tie: the output is second, third, first
C12_Witness ==
  /\ phase = "done"
  /\ Len(common) = 3
  /\ Len(assets1) = 3
  /\ Side1(common[1]) = assets1[2]
  /\ Side1(common[2]) = assets1[3]
  /\ Side1(common[3]) = assets1[1]
  /\ assets1[2] # assets1[3]
  /\ common[1].totalBalanceUSD = common[2].totalBalanceUSD
  /\ common[2].totalBalanceUSD > common[3].totalBalanceUSD

(***************************************************************************)
(* Properties of the metrics                    (checked in SpecSimilarity) *)
(***************************************************************************)
Scored == similarity # NoMetrics

\* the sum of totalBalanceUSD over common
RECURSIVE SumTotals(_)
SumTotals(list) ==
  IF list = <<>> THEN 0 ELSE Head(list).totalBalanceUSD + SumTotals(Tail(list))

\* commonAssetsUSD is half the sum of totalBalanceUSD over common
HalfOfTotals ==
  /\ similarity.commonAssetsUSD.kind = "finite"
  /\ 2 * similarity.commonAssetsUSD.n = similarity.commonAssetsUSD.d * SumTotals(common)

\* valueOverlap is commonAssetsUSD / ((user1TotalUSD + user2TotalUSD) / 2) * 100,
\* and no finite number when the two totals are zero
OverlapOfAverage ==
  LET sum == similarity.user1TotalUSD + similarity.user2TotalUSD
      shared == similarity.commonAssetsUSD
      overlap == similarity.valueOverlap
  IN IF sum > 0
     THEN /\ overlap.kind = "finite"
          /\ overlap.n * sum * shared.d = 200 * shared.n * overlap.d
     ELSE overlap.kind \in {"NaN", "Infinity"}

\* both wallets hold one asset, the same one, and each total is the value
\* of that wallet's asset
SameSingleAsset ==
  /\ Len(assets1) = 1
  /\ Len(assets2) = 1
  /\ GetAssetKey(assets1[1]) = GetAssetKey(assets2[1])
  /\ similarity.user1TotalUSD = assets1[1].balanceUSD
  /\ similarity.user2TotalUSD = assets2[1].balanceUSD

Disjoint ==
  /\ assets1 # <<>>
  /\ assets2 # <<>>
  /\ \A i \in 1..Len(assets1), j \in 1..Len(assets2) :
       GetAssetKey(assets1[i]) # GetAssetKey(assets2[j])

\* C14: two non-empty lists with no key in common give an empty list of
\* common assets, valueOverlap = 0 and assetCountSimilarity = 0, whatever
\* the balances and totals
C14_NoOverlap ==
  (Scored /\ Disjoint) =>
    /\ common = <<>>
    /\ similarity.valueOverlap = Number(0, 1)
    /\ similarity.assetCountSimilarity = Number(0, 1)

\* C15: for two empty lists assetCountSimilarity is 0
C15_EmptyComparison ==
  (Scored /\ assets1 = <<>> /\ assets2 = <<>>) =>
    similarity.assetCountSimilarity = Number(0, 1)

\* the sum of balanceUSD over a list of assets
RECURSIVE SumListed(_)
SumListed(list) ==
  IF list = <<>> THEN 0 ELSE Head(list).balanceUSD + SumListed(Tail(list))

\* C16: a total is the aggregate of the portfolio whenever there is one,
\* whatever its value, and the sum of the listed balances otherwise
C16_AggregatePrecedence ==
  Scored =>
    /\ similarity.user1TotalUSD =
         (IF aggregate1 # Absent THEN aggregate1 ELSE SumListed(assets1))
    /\ similarity.user2TotalUSD =
         (IF aggregate2 # Absent THEN aggregate2 ELSE SumListed(assets2))

(***************************************************************************)
(* Properties of the extraction                    (checked in SpecExtract) *)
(***************************************************************************)
\* the tokens of the edges that have a node, in the order of the edges
TokensOf(p) ==
  IF p.shape # "edges" THEN <<>>
  ELSE LET tokenEdges == SelectSeq(p.edges, LAMBDA edge : edge.kind = "token")
       IN [k \in 1..Len(tokenEdges) |-> TokenAsset(tokenEdges[k].node)]

\* C17: extractTokenAssets throws for no shape of portfolio, and returns
\* the assets of the edges that have a node, leaving the other edges out
C17_NeverThrows ==
  extracted.called =>
    /\ ~extracted.threw
    /\ extracted.assets = TokensOf(portfolio)

(***************************************************************************)
(* Properties of the wallet-overlap route          (checked in SpecOverlap) *)
(***************************************************************************)
\* the request was well-formed and the overlap could not be computed: a
\* profile or a portfolio could not be fetched, or a user has no address
CannotCompute ==
  /\ overlapReq.pc = "responded"
  /\ overlapReq.body = "ok"
  /\ ~overlapReq.useMockData
  /\ \/ overlapReq.user \in {"failed", "noAddresses"}
     \/ overlapReq.target \in {"failed", "noAddresses"}
     \/ overlapReq.userPortfolio = FetchFailed
     \/ overlapReq.targetPortfolio = FetchFailed

\* C18: whenever the overlap cannot be computed the route answers with the
\* zeroed result, not with an error
C18_ZeroedNotError == CannotCompute => overlapRes = Zeroed

(***************************************************************************)
(* Properties of the follow flow                    (checked in SpecFollow) *)
(***************************************************************************)
\* C20: a follow is dispatched only by the route, for the signer whose
\* status check has just answered 'approved'; a check that answers any
\* other status dispatches nothing and is answered 403 with that status
\* and the approval url of the signer
C20_FollowOnlyApproved ==
  [][/\ follows' # follows =>
          /\ followReq.pc = "checking"
          /\ followReq'.checked = "approved"
          /\ follows' = Append(follows, [signerUuid |-> followReq.signerUuid,
                                          status |-> "approved"])
     /\ (followReq.pc = "checking" /\ followReq'.checked \in Statuses \ {"approved"}) =>
          /\ follows' = follows
          /\ followRes' = FollowResponse(403, followReq'.checked,
                                          ApprovalUrl(followReq.signerUuid, followReq'.checked))]_vars

\* a card got a follow dispatched with a signer that has been revoked
\* since, and a later request with that signer was answered 403
C20_Witness ==
  /\ Len(follows) = 1
  /\ followRes.status = 403
  /\ followRes.signerStatus = "revoked"
  /\ followReq.signerUuid = follows[1].signerUuid
  /\ stored.signer_uuid = follows[1].signerUuid

\* the request was posted by one of the repository's callers of the
\* route, with a FID for the user and one for the profile
PostedByCaller ==
  /\ overlapCall.caller \in {"testWalletOverlapApi", "fetchWalletOverlap"}
  /\ overlapCall.userFid # 0
  /\ overlapCall.profileFid # 0

\* C21: a request posted by testWalletOverlapApi or fetchWalletOverlap with
\* both FIDs passes the validation of the route and is never answered 400
C21_CallersPassValidation ==
  PostedByCaller =>
    /\ overlapReq.body = "ok"
    /\ overlapRes.status # 400

(***************************************************************************)
(* withCache on a stored null and on a rejecting producer                  *)
(*                                               (checked in SpecWithCache) *)
(***************************************************************************)
\* the step is a withCache call on a key whose stored, unexpired value is null
StartsOnStoredNull ==
  /\ op'.name \in {"withCacheHit", "withCacheMiss"}
  /\ op'.key \in DOMAIN cache
  /\ now <= cache[op'.key].expiry
  /\ cache[op'.key].value = Null

\* the step invoked the producer of the call
InvokesProducer ==
  /\ op'.name = "withCacheMiss"
  /\ runs'[op'.key] = runs[op'.key] + 1
  /\ \E p \in Callers : wc[p].pc = "idle" /\ wc'[p].pc = "awaiting" /\ wc'[p].key = op'.key

RejectionStep == op'.name = "withCacheRejected"

\* the rejecting call went back to its caller and stored nothing
PropagatesUnstored ==
  /\ cache' = cache
  /\ lastSet' = lastSet
  /\ \E p \in Callers : wc[p].pc = "awaiting" /\ wc[p].key = op'.key /\ wc'[p] = Idle

\* the step is the first withCache call on the key of the rejection before it
CallAfterRejection ==
  /\ op.name = "withCacheRejected"
  /\ op'.name \in {"withCacheHit", "withCacheMiss"}
  /\ op'.key = op.key

\* C30 as claimed: a rejection of the producer propagates to the caller of
\* withCache and stores nothing under the key, and the next withCache call
\* on the same key invokes its producer again.
C30_RejectionThenMiss ==
  [][/\ RejectionStep => PropagatesUnstored
     /\ CallAfterRejection => InvokesProducer]_vars

\* C30 as amended: a rejection of the producer propagates to the caller of
\* withCache and stores nothing under the key, and the next withCache call
\* on the same key invokes its producer again unless an overlapping call has
\* left a value other than null, not yet expired, under the key.
C30_RejectionNotCached ==
  [][/\ RejectionStep => PropagatesUnstored
     /\ (CallAfterRejection /\ Missing(cache, op'.key, now)) => InvokesProducer]_vars

\* a producer rejected, nothing is stored under its key, and the next call on
\* the key has its producer running
C30_Witness ==
  /\ op.name = "withCacheMiss"
  /\ op.key \notin DOMAIN cache
  /\ ~lastSet[op.key].done
  /\ runs[op.key] = 2
  /\ Cardinality(Awaiting(op.key)) = 1

(***************************************************************************)
(* neynarRequest when the limiter refuses              (checked in SpecRate) *)
(***************************************************************************)
\* the step is a neynarRequest that checkRateLimit refused
Refused == rop'.name = "rejected"

\* the call ended in the step: no fetch was sent and none is left in flight
\* for it
EndsWithoutFetch ==
  /\ ~rop'.allowed
  /\ inflight' = inflight
  /\ sent'[rop'.endpoint] <= sent[rop'.endpoint]
  /\ sentGlobal' <= sentGlobal

\* C25: when checkRateLimit answers false, neynarRequest performs no
\* upstream fetch, throws its 'Rate limit exceeded' error and ends: it does
\* not send the call again on its own.
C25_RejectionIsLocal == [][Refused => EndsWithoutFetch]_vars

\* a call was refused with the endpoint's window full and nothing in flight
C25_Witness ==
  /\ rop.name = "rejected"
  /\ rop.before >= DefaultLimit
  /\ inflight[rop.endpoint] = 0

(***************************************************************************)
(* The follow route when the limiter refuses         (checked in SpecFollow) *)
(***************************************************************************)
\* the route answered a request in which checkRateLimit refused the signer
\* status check or the follow
RefusedWhileFollowing ==
  /\ followReq.pc = "responded"
  /\ followReq.refused

\* C26: when the rate limiter refuses a Neynar call made while handling
\* POST /api/follow, the route answers with status 429 and the message
\* 'Rate limit exceeded. Please try again later.', not with a 500.
C26_RateLimitIs429 ==
  RefusedWhileFollowing =>
    /\ followRes.status = 429
    /\ followRes.error = TryAgainLater

(***************************************************************************)
(* GET /api/suggested-follows-with-overlap, and the follows made meanwhile *)
(***************************************************************************)
InitSuggested ==
  /\ now = 0
  /\ CacheStart
  /\ RateStart
  /\ AssetsStart
  /\ FlowStart
  /\ apiKey = TRUE
  /\ bulk = "/user/follow"

SuggestFrame ==
  UNCHANGED <<op, cacheVars, rateVars, assetVars, routeVars, followVars, stackVars>>

\* memoryCache.get on each of the keys: the expired ones are deleted
RECURSIVE AfterGets(_, _)
AfterGets(c, keys) ==
  IF keys = {} THEN c
  ELSE LET key == CHOOSE k \in keys : TRUE IN
         AfterGets(CacheAfterGet(c, key, now), keys \ {key})

\* route.ts 115-133: no fid parameter, or one that is not a number
SuggestedBadFid ==
  /\ suggestedReq.pc = "idle"
  /\ suggestedReq' = [NoSuggestedReq EXCEPT !.pc = "responded"]
  /\ suggestedRes' = SuggestedResponse(400, <<>>, 0, FALSE, {}, FALSE)
  /\ SuggestFrame
  /\ UNCHANGED <<now, upstreamFollowing, justFollowed, suggestedCache, followingCache,
                 overlapCache, overlapping, fallbackAt>>

\* route.ts 135-179: useMockData=true
SuggestedMock(limit) ==
  /\ suggestedReq.pc = "idle"
  /\ suggestedReq' = [NoSuggestedReq EXCEPT !.pc = "responded"]
  /\ suggestedRes' = SuggestedResponse(200, Slice(MockUsers, limit), Len(MockUsers), TRUE, {},
                                       FALSE)
  /\ SuggestFrame
  /\ UNCHANGED <<now, upstreamFollowing, justFollowed, suggestedCache, followingCache,
                 overlapCache, overlapping, fallbackAt>>

\* route.ts 184-237, from the request to the await of the overlap
\* calculations. suggestedOk and followingOk tell whether the upstream
\* calls succeed when the caches miss: a failed fetchSuggestedFollows
\* rejects withCache and is answered 500 (249-255), a failed following
\* query makes getFollowing return and cache [] (92-95). Every
\* calculatePortfolioOverlap reads the cache as it is called: withCache
\* runs up to its first await within the map of 223-237.
SuggestedGet(limit, suggestedOk, followingOk) ==
  /\ suggestedReq.pc = "idle"
  /\ LET sKey == SuggestedKey(limit)
         sHit == Cached(suggestedCache, sKey, now)
         suggested == IF sHit THEN suggestedCache[sKey].value ELSE SuggestedUpstream
         fHit == Cached(followingCache, FollowingKey, now)
         followingFids == IF fHit THEN followingCache[FollowingKey].value
                          ELSE IF followingOk THEN upstreamFollowing ELSE {}
         notFollowedUsers == SelectSeq(suggested, LAMBDA fid : fid \notin followingFids)
         users == Slice(notFollowedUsers, limit)
         hits == {t \in Elements(users) : Cached(overlapCache, OverlapKey(t), now)}
     IN
       IF ~sHit /\ ~suggestedOk
       THEN /\ suggestedCache' = CacheAfterGet(suggestedCache, sKey, now)
            /\ suggestedReq' = [NoSuggestedReq EXCEPT !.pc = "responded"]
            /\ suggestedRes' = SuggestedResponse(500, <<>>, 0, FALSE, {}, FALSE)
            /\ UNCHANGED <<followingCache, overlapCache>>
       ELSE /\ suggestedCache' =
                 IF sHit THEN suggestedCache
                 ELSE CacheSet(CacheAfterGet(suggestedCache, sKey, now), sKey, suggested,
                               SUGGESTED_FOLLOWS_CACHE_TTL, now)
            /\ followingCache' =
                 IF fHit THEN followingCache
                 ELSE CacheSet(CacheAfterGet(followingCache, FollowingKey, now), FollowingKey,
                               followingFids, FOLLOWING_CACHE_TTL, now)
            /\ overlapCache' = AfterGets(overlapCache, {OverlapKey(t) : t \in Elements(users)})
            /\ suggestedReq' =
                 [pc |-> "awaiting", at |-> now,
                  followed |-> justFollowed \cap upstreamFollowing,
                  queryFailed |-> ~fHit /\ ~followingOk,
                  users |-> users, totalCount |-> Len(notFollowedUsers),
                  pending |-> Elements(users) \ hits,
                  overlap |-> [t \in Targets |->
                                 IF t \in hits THEN overlapCache[OverlapKey(t)].value
                                 ELSE NoData]]
            /\ suggestedRes' = suggestedRes
  /\ SuggestFrame
  /\ UNCHANGED <<now, upstreamFollowing, justFollowed, overlapping, fallbackAt>>

\* route.ts 46-73: what the producer of calculatePortfolioOverlap returns.
\* A 200 answer of /api/wallet-overlap is returned as it is, any failure is
\* caught and turned into the fallback
ProducedOverlap(ok, pct) == IF ok THEN OverlapData(pct) ELSE Fallback

\* route.ts 32-74: the producer of a calculatePortfolioOverlap of the
\* request settles, and withCache stores what it returned
OverlapSettled(t, ok, pct) ==
  /\ suggestedReq.pc = "awaiting"
  /\ t \in suggestedReq.pending
  /\ overlapCache' = CacheSet(overlapCache, OverlapKey(t), ProducedOverlap(ok, pct),
                              OVERLAP_CACHE_TTL, now)
  /\ suggestedReq' = [suggestedReq EXCEPT !.pending = @ \ {t},
                                          !.overlap[t] = ProducedOverlap(ok, pct)]
  /\ fallbackAt' = IF ok THEN fallbackAt ELSE [fallbackAt EXCEPT ![t] = now]
  /\ SuggestFrame
  /\ UNCHANGED <<now, upstreamFollowing, justFollowed, suggestedCache, followingCache,
                 overlapping, suggestedRes>>

\* route.ts 32-44: another request being handled at the same time calls
\* calculatePortfolioOverlap for target t, and its withCache misses
OtherOverlapStart(t) ==
  /\ overlapping[t] < MaxOverlapping
  /\ ~Cached(overlapCache, OverlapKey(t), now)
  /\ overlapCache' = CacheAfterGet(overlapCache, OverlapKey(t), now)
  /\ overlapping' = [overlapping EXCEPT ![t] = @ + 1]
  /\ SuggestFrame
  /\ UNCHANGED <<now, upstreamFollowing, justFollowed, suggestedCache, followingCache,
                 suggestedReq, fallbackAt, suggestedRes>>

\* route.ts 32-74: the producer of that call settles
OtherOverlapSettled(t, ok, pct) ==
  /\ overlapping[t] > 0
  /\ overlapping' = [overlapping EXCEPT ![t] = @ - 1]
  /\ overlapCache' = CacheSet(overlapCache, OverlapKey(t), ProducedOverlap(ok, pct),
                              OVERLAP_CACHE_TTL, now)
  /\ fallbackAt' = IF ok THEN fallbackAt ELSE [fallbackAt EXCEPT ![t] = now]
  /\ SuggestFrame
  /\ UNCHANGED <<now, upstreamFollowing, justFollowed, suggestedCache, followingCache,
                 suggestedReq, suggestedRes>>

\* route.ts 223-247: every overlap calculation has settled; the users get
\* their overlapPercentage || 0, are sorted and returned
SuggestedRespond ==
  /\ suggestedReq.pc = "awaiting"
  /\ suggestedReq.pending = {}
  /\ LET usersWithOverlap ==
           [i \in 1..Len(suggestedReq.users) |->
              [fid |-> suggestedReq.users[i],
               overlapPercentage |->
                 OrZero(suggestedReq.overlap[suggestedReq.users[i]].overlapPercentage)]]
     IN suggestedRes' = SuggestedResponse(200, SortByOverlap(usersWithOverlap),
                                          suggestedReq.totalCount, FALSE,
                                          suggestedReq.followed, suggestedReq.queryFailed)
  /\ suggestedReq' = [NoSuggestedReq EXCEPT !.pc = "responded"]
  /\ SuggestFrame
  /\ UNCHANGED <<now, upstreamFollowing, justFollowed, suggestedCache, followingCache,
                 overlapCache, overlapping, fallbackAt>>

\* the response reaches the page that asked (page.tsx 84-93)
SuggestedAnswered ==
  /\ suggestedReq.pc = "responded"
  /\ suggestedReq' = NoSuggestedReq
  /\ suggestedRes' = NoSuggestedRes
  /\ SuggestFrame
  /\ UNCHANGED <<now, upstreamFollowing, justFollowed, suggestedCache, followingCache,
                 overlapCache, overlapping, fallbackAt>>

\* part_009 74-80: /api/follow answered 200 for target t, which the user
\* follows upstream from then on; the route touches no cache
FollowSucceeded(t) ==
  /\ t \notin upstreamFollowing
  /\ upstreamFollowing' = upstreamFollowing \cup {t}
  /\ justFollowed' = justFollowed \cup {t}
  /\ SuggestFrame
  /\ UNCHANGED <<now, suggestedCache, followingCache, overlapCache, suggestedReq,
                 overlapping, fallbackAt, suggestedRes>>

\* Date.now() advances to a later instant
TickSuggested(t) ==
  /\ t > now
  /\ now' = t
  /\ justFollowed' = {}
  /\ SuggestFrame
  /\ UNCHANGED <<upstreamFollowing, suggestedCache, followingCache, overlapCache,
                 suggestedReq, overlapping, fallbackAt, suggestedRes>>

NextSuggested ==
  \/ SuggestedBadFid
  \/ \E limit \in Limits : SuggestedMock(limit)
  \/ \E limit \in Limits, suggestedOk \in BOOLEAN, followingOk \in BOOLEAN :
       SuggestedGet(limit, suggestedOk, followingOk)
  \/ \E t \in Targets, ok \in BOOLEAN, pct \in Percentages : OverlapSettled(t, ok, pct)
  \/ \E t \in Targets : OtherOverlapStart(t)
  \/ \E t \in Targets, ok \in BOOLEAN, pct \in Percentages : OtherOverlapSettled(t, ok, pct)
  \/ SuggestedRespond
  \/ SuggestedAnswered
  \/ \E t \in Targets : FollowSucceeded(t)
  \/ \E t \in Instants : TickSuggested(t)

SpecSuggested == InitSuggested /\ [][NextSuggested]_vars

(***************************************************************************)
(* Properties of the suggested-follows route      (checked in SpecSuggested) *)
(***************************************************************************)
\* the route has answered 200 from the real path
AnsweredUsers ==
  /\ suggestedReq.pc = "responded"
  /\ suggestedRes.status = 200
  /\ ~suggestedRes.mock

\* the FIDs of the users of the response
ReturnedFids == {suggestedRes.users[i].fid : i \in 1..Len(suggestedRes.users)}

\* C22: after the user has followed target T through /api/follow, the
\* refresh of the suggested follows issued right after, with T in the
\* upstream following list and no failure of the following query, returns
\* a list that does not contain T.
C22_RefreshDropsFollowed ==
  (AnsweredUsers /\ ~suggestedRes.queryFailed) =>
     \A t \in suggestedRes.followed : t \notin ReturnedFids

\* C24: the users of a 200 response are sorted by overlapPercentage in
\* non-increasing order: every user's overlapPercentage is greater than or
\* equal to that of the user after it.
C24_SortedByOverlap ==
  suggestedRes.status = 200 =>
    \A i \in 1..(Len(suggestedRes.users) - 1) :
      suggestedRes.users[i].overlapPercentage >= suggestedRes.users[i + 1].overlapPercentage

\* Neynar suggested 2 before 3; the route found overlap 0 for 2 and 40 for 3
\* and returned 3 before 2
C24_Witness ==
  /\ AnsweredUsers
  /\ suggestedRes.users = << [fid |-> 3, overlapPercentage |-> 40],
                             [fid |-> 2, overlapPercentage |-> 0] >>

\* the step is the arrival of a request that goes on to the overlap
\* calculations
Arrives == suggestedReq.pc = "idle" /\ suggestedReq'.pc = "awaiting"

\* a fallback was stored for target t no more than 24 hours ago
WithinDay(t) == fallbackAt[t] # Absent /\ now <= fallbackAt[t] + DayMs

\* the step is the failure of the upstream call of an overlap calculation
\* for t
UpstreamFailed(t) == fallbackAt'[t] # fallbackAt[t]

\* the calculation resolved to the fallback, which is stored for 24 hours,
\* and the request it belongs to goes on
ResolvedToFallback(t) ==
  /\ overlapCache'[OverlapKey(t)] = [value |-> Fallback, expiry |-> now + DayMs]
  /\ suggestedReq'.pc = suggestedReq.pc
  /\ suggestedRes' = suggestedRes
  /\ t \in suggestedReq.pending \ suggestedReq'.pending => suggestedReq'.overlap[t] = Fallback

\* the arriving request has its overlap with t without calling the upstream
FromCache(t) ==
  /\ t \notin suggestedReq'.pending
  /\ OverlapKey(t) \in DOMAIN overlapCache
  /\ suggestedReq'.overlap[t] = overlapCache[OverlapKey(t)].value

\* C28 as claimed: calculatePortfolioOverlap never rejects: a failure of its
\* upstream call resolves to the zero-overlap fallback, which is stored for
\* 24 hours, and every request for the pair that arrives within these 24
\* hours gets the fallback without a call of the upstream.
C28_FallbackServed ==
  [][\A t \in Targets :
       /\ UpstreamFailed(t) => ResolvedToFallback(t)
       /\ (Arrives /\ WithinDay(t) /\ t \in Elements(suggestedReq'.users)) =>
            (FromCache(t) /\ suggestedReq'.overlap[t] = Fallback)]_vars

\* C28 as amended: calculatePortfolioOverlap never rejects: a failure of its
\* upstream call resolves to the zero-overlap fallback, which is stored for
\* 24 hours, and every request for the pair that arrives within these 24
\* hours gets what is stored without a call of the upstream: the fallback,
\* unless a call that overlapped the failed one has stored its own result
\* over it.
C28_FallbackCached ==
  [][\A t \in Targets :
       /\ UpstreamFailed(t) => ResolvedToFallback(t)
       /\ (Arrives /\ WithinDay(t) /\ t \in Elements(suggestedReq'.users)) =>
            FromCache(t)]_vars

\* a request that arrived 24 hours after the fallback for a pair was stored
\* has the fallback for it, with no call of the upstream pending
C28_Witness ==
  /\ suggestedReq.pc = "awaiting"
  /\ suggestedReq.at = DayMs
  /\ \E t \in Elements(suggestedReq.users) :
       /\ fallbackAt[t] = 0
       /\ t \notin suggestedReq.pending
       /\ suggestedReq.overlap[t] = Fallback

(***************************************************************************)
(* CardStack: the first page, the swipes and the pagination effect         *)
(***************************************************************************)
InitStack ==
  /\ now = 0
  /\ CacheStart
  /\ RateStart
  /\ AssetsStart
  /\ RequestsStart
  /\ SuggestStart
  /\ StackStart
  /\ serverCount \in 0..MaxServerUsers
  /\ apiKey = TRUE
  /\ bulk = "/user/follow"

StackFrame ==
  UNCHANGED <<now, op, cacheVars, rateVars, assetVars, routeVars, followVars, suggestVars,
              serverCount>>

\* a card with its buttons is on the screen (part_004 261-361)
CardShown == ~isLoading /\ ~error /\ currentIndex < Len(profiles)

\* part_004 217-229: the effect that runs after a render with the state
\* given: fetchMoreSuggestedFollows starts when WantsMore holds
PaginationEffect(loaded, index, cursor, inFlight) ==
  IF WantsMore(loaded, index, cursor, isFetchingMore) /\ inFlight = "none"
  THEN /\ isFetchingMore' = TRUE
       /\ fetching' = "more"
  ELSE /\ isFetchingMore' = isFetchingMore
       /\ fetching' = inFlight

\* the response to the fetch in flight arrives. The first page (part_004
\* 86-142) replaces the profiles and sets nextCursor from the answer; a
\* further page (part_004 168-196) is appended. A failure sets the error
\* of the first fetch (143-151) and is only logged for a further one
\* (197-203).
FetchSettled(ok) ==
  /\ fetching # "none"
  /\ LET data == RouteReply(serverCount) IN
       IF fetching = "initial"
       THEN /\ profiles' = IF ok THEN data.users ELSE profiles
            /\ nextCursor' = IF ok THEN NextCursorOf(data) ELSE nextCursor
            /\ hasFetchedInitial' = ok
            /\ error' = ~ok
            /\ isLoading' = FALSE
            /\ PaginationEffect(profiles', currentIndex, nextCursor', "none")
       ELSE /\ profiles' = IF ok THEN profiles \o data.users ELSE profiles
            /\ nextCursor' = IF ok THEN NextCursorOf(data) ELSE nextCursor
            /\ isFetchingMore' = FALSE
            /\ fetching' = "none"
            /\ UNCHANGED <<hasFetchedInitial, error, isLoading>>
  /\ stackOp' = IF fetching = "initial" THEN "loaded" ELSE "appended"
  /\ UNCHANGED <<currentIndex, direction, exiting, timers, swiped>>
  /\ StackFrame

\* part_004 273-290: Try Again on the error screen calls
\* fetchSuggestedFollows, which fetches unless the first page has arrived
TryAgain ==
  /\ ~isLoading
  /\ error
  /\ ~hasFetchedInitial
  /\ fetching = "none"
  /\ isLoading' = TRUE
  /\ error' = FALSE
  /\ fetching' = "initial"
  /\ stackOp' = "retry"
  /\ UNCHANGED <<profiles, currentIndex, direction, exiting, nextCursor, isFetchingMore,
                 hasFetchedInitial, timers, swiped>>
  /\ StackFrame

\* a handleSwipe without the test of exiting
HandleSwipe_Unguarded(dir) ==
  /\ CardShown
  /\ Len(timers) < 2
  /\ direction' = dir
  /\ exiting' = TRUE
  /\ timers' = Append(timers, Len(profiles))
  /\ swiped' = swiped \cup {currentIndex}
  /\ stackOp' = dir
  /\ UNCHANGED <<profiles, currentIndex, nextCursor, isFetchingMore, hasFetchedInitial,
                 isLoading, error, fetching>>
  /\ StackFrame

\* part_004 247-259, CardStack.tsx 73-85: a click on the like ("right") or
\* the dislike ("left") button of the card on the screen. React commits the
\* state a click has set before it dispatches the next one, so the handler
\* reads the exiting of the last step.
HandleSwipe(dir) ==
  /\ CardShown
  /\ IF exiting
     THEN UNCHANGED <<direction, exiting, timers, swiped>>
     ELSE /\ direction' = dir
          /\ exiting' = TRUE
          /\ timers' = Append(timers, Len(profiles))
          /\ swiped' = swiped \cup {currentIndex}
  /\ stackOp' = dir
  /\ UNCHANGED <<profiles, currentIndex, nextCursor, isFetchingMore, hasFetchedInitial,
                 isLoading, error, fetching>>
  /\ StackFrame

\* part_004 254-258: the callback of the oldest pending timer runs, and the
\* effect after the render it causes
TimerFires ==
  /\ timers # <<>>
  /\ currentIndex' = Min(currentIndex + 1, Head(timers))
  /\ direction' = "null"
  /\ exiting' = FALSE
  /\ timers' = Tail(timers)
  /\ PaginationEffect(profiles, currentIndex', nextCursor, fetching)
  /\ stackOp' = "timer"
  /\ UNCHANGED <<profiles, nextCursor, hasFetchedInitial, isLoading, error, swiped>>
  /\ StackFrame

\* part_004 292-309: Start Over on the screen shown past the last profile
StartOver ==
  /\ ~isLoading
  /\ ~error
  /\ currentIndex >= Len(profiles)
  /\ currentIndex' = 0
  /\ swiped' = {}
  /\ PaginationEffect(profiles, 0, nextCursor, fetching)
  /\ stackOp' = "startOver"
  /\ UNCHANGED <<profiles, direction, exiting, nextCursor, hasFetchedInitial, isLoading,
                 error, timers>>
  /\ StackFrame

NextStack ==
  \/ \E ok \in BOOLEAN : FetchSettled(ok)
  \/ TryAgain
  \/ \E dir \in {"left", "right"} : HandleSwipe(dir)
  \/ TimerFires
  \/ StartOver

SpecStack == InitStack /\ [][NextStack]_vars

\* the responses of the server arrive and the timers fire; the user may stop
\* clicking at any time
SpecStackLive ==
  /\ SpecStack
  /\ WF_vars(FetchSettled(TRUE))
  /\ WF_vars(TimerFires)

(***************************************************************************)
(* Properties of CardStack            (checked in SpecStack, SpecStackLive) *)
(***************************************************************************)
\* the step is a click on like or dislike
Clicks == stackOp' \in {"left", "right"}

\* the step left the state of the swipe as it was
NoEffect == UNCHANGED <<currentIndex, direction, exiting, timers, swiped, profiles>>

\* the step is the callback of a timer
TimerStep == stackOp' = "timer"

\* the index is within the profiles, a swipe is pending exactly while
\* exiting is set, and every index below the current one was swiped away
SwipesInOrder ==
  /\ 0 <= currentIndex
  /\ currentIndex <= Len(profiles)
  /\ Len(timers) = (IF exiting THEN 1 ELSE 0)
  /\ \A i \in 0..(currentIndex - 1) : i \in swiped
  /\ \A i \in swiped : i < currentIndex \/ (i = currentIndex /\ exiting)

\* C27: a like or dislike that arrives while exiting is set has no effect,
\* the timer of every accepted swipe advances currentIndex by exactly one,
\* capped at profiles.length, and so no card is skipped whatever the
\* clicks: every index below currentIndex was swiped away, and
\* 0 <= currentIndex <= profiles.length.
C27_SwipeMachine ==
  /\ []SwipesInOrder
  /\ [][/\ (Clicks /\ exiting) => NoEffect
        /\ TimerStep => currentIndex' = Min(currentIndex + 1, Len(profiles))]_vars

\* the second card is on the screen with a swipe pending, and a click has
\* just been ignored
C27_Witness ==
  /\ stackOp \in {"left", "right"}
  /\ stackOp # direction
  /\ exiting
  /\ currentIndex = 1
  /\ swiped = {0, 1}

\* the user is within 3 cards of the end of the profiles loaded
NearEnd == CardShown /\ currentIndex >= Len(profiles) - 3

\* the server has more suggested users than are loaded
ServerHasMore == serverCount > Len(profiles)

\* a page was fetched and appended to the first one
Appended == Len(profiles) > PageLimit

\* C23: when the user has swiped to within 3 cards of the end of the loaded
\* profiles and the server has more suggested users than were loaded, the
\* stack eventually fetches the next page and appends it to the profiles.
C23_NextPageLoaded == (NearEnd /\ ServerHasMore) ~> Appended

====
